---- MODULE Spec2Model ----
(***************************************************************************)
(* A model of ls-pretty: the tab manager (src/src/tabs.rs: the Tab record, *)
(* the TabManager state and each of its operations) and the App of         *)
(* src/src/main.rs (the file browser, the edit buffer, the terminal        *)
(* session with its reader threads, and the key dispatch of run_app).      *)
(*                                                                         *)
(* Indices are 0-based as in the Rust code; TLA+ sequences are 1-based, so *)
(* the tab at index i of the Vec is tabs[i + 1] (operator At).             *)
(* Option<usize> is modelled as a sequence: <<>> is None, <<i>> is Some(i) *)
(*                                                                         *)
(* A method is an action on the manager's fields; the value it returns is  *)
(* the operator <method>_ret, a function of the state it is called in.     *)
(***************************************************************************)
EXTENDS Integers, Sequences, FiniteSets, TLC

\* ------------------------------------------------------------------ bounds

\* add_tab creates no tab once next_id has passed MaxId (next_id is an
\* unbounded usize counter in the code).
MaxId == 3

\* The paths, the contents and the cursor values callers pass in.
Paths == {"a.txt", "b.txt", "c.txt"}
Contents == {"x", "y"}
\* (cursor_line, cursor_col, scroll_offset) triples callers store in a tab.
Views == {<<0, 0, 0>>, <<2, 1, 1>>}

\* Index arguments: every valid index and one that is out of bounds even
\* when every path is open.
Indexes == 0 .. Cardinality(Paths)

VARIABLES
    tabs,                    \* TabManager.tabs: Vec<Tab>
    active_tab,              \* TabManager.active_tab: usize
    next_id,                 \* TabManager.next_id: usize
    show_close_confirmation, \* TabManager.show_close_confirmation: bool
    tab_to_close,            \* TabManager.tab_to_close: Option<usize>
    pending_id               \* the id of the tab that the close_tab which set
                             \* tab_to_close named (history)

tabVars == <<tabs, active_tab, next_id, show_close_confirmation, tab_to_close,
             pending_id>>

\* The App of src/src/main.rs. A String is the sequence of its characters.
VARIABLES
    selected_index,           \* App.selected_index: usize
    show_help,                \* App.show_help: bool
    show_file_content,        \* App.show_file_content: bool
    file_content,             \* App.file_content: String
    file_content_scroll,      \* App.file_content_scroll: usize
    file_editing_mode,        \* App.file_editing_mode: bool
    file_has_unsaved_changes, \* App.file_has_unsaved_changes: bool
    original_file_content,    \* App.original_file_content: String
    show_unsaved_alert,       \* App.show_unsaved_alert: bool
    cursor_position,          \* App.cursor_position: usize
    cursor_line,              \* App.cursor_line: usize
    cursor_col,               \* App.cursor_col: usize
    disk,                     \* the text stored in each entry of App.files
    run_state,                \* where the UI thread is: "running" (run_app
                              \* polls for a key), "open_terminal_ok" or
                              \* "open_terminal_err" (in open_terminal, after
                              \* try_create_pty), "exited" (run_app returned),
                              \* "panicked" (the process aborted)
    wrapping                  \* an arithmetic overflow has wrapped: the build
                              \* has overflow checks off

editVars == <<selected_index, show_help, show_file_content, file_content,
              file_content_scroll, file_editing_mode, file_has_unsaved_changes,
              original_file_content, show_unsaved_alert, cursor_position,
              cursor_line, cursor_col, disk, wrapping>>

\* The terminal session of the App.
VARIABLES
    show_terminal,     \* App.show_terminal: bool
    terminal_output,   \* App.terminal_output: Arc<Mutex<String>>, the text
    terminal_input,    \* App.terminal_input: String
    terminal_pty,      \* App.terminal_pty is Some(master)
    terminal_receiver, \* App.terminal_receiver is Some(receiver)
    readers,           \* the number of reader threads that are running
    appended,          \* the texts pushed onto terminal_output since it was
                       \* last cleared, one element for each push (history)
    written,           \* the text send_to_terminal wrote to the writer of
                       \* the pseudo-terminal since the last frame (history)
    echoed,            \* the text send_to_terminal pushed onto the output
                       \* that no frame was drawn after yet (history)
    lock,              \* the mutex of terminal_output: None when it is free,
                       \* Some(text) while a reader thread that read text
                       \* holds it; the UI thread takes and releases it
                       \* within one step
    pty_line           \* the line the pseudo-terminal was sent: Some(text)
                       \* when every send_to_terminal of this session wrote
                       \* to its writer, text being what was written since
                       \* the last line terminator with each erase sequence
                       \* taken as the deletion of a character, or with its
                       \* terminator the last line; None otherwise (history)

termVars == <<show_terminal, terminal_output, terminal_input, terminal_pty,
              terminal_receiver, readers, appended, written, echoed, lock,
              pty_line>>

vars == <<tabVars, editVars, run_state, termVars>>

\* ------------------------------------------------------------ Rust values

None == <<>>
Some(i) == <<i>>

\* Result<T, String>: Ok(()), Ok(v) and Err(msg).
Ok == [kind |-> "Ok"]
OkVal(v) == [kind |-> "Ok", val |-> v]
Err(msg) == [kind |-> "Err", msg |-> msg]

\* self.tabs[index]
At(ts, index) == ts[index + 1]

\* Vec::remove(index): the elements after index shift left by one.
Remove(ts, index) ==
    [k \in 1 .. (Len(ts) - 1) |-> IF k < index + 1 THEN ts[k] ELSE ts[k + 1]]

\* ------------------------------------------------------------------- Tab

\* Tab::new with the snapshot left empty.
TabNew_EmptyOriginal(id, name, path, content) ==
    [id |-> id,
     name |-> name,
     path |-> path,
     content |-> content,
     original_content |-> "",
     has_unsaved_changes |-> FALSE,
     cursor_line |-> 0,
     cursor_col |-> 0,
     scroll_offset |-> 0,
     file_version |-> 1]

\* Tab::new
TabNew(id, name, path, content) ==
    [id |-> id,
     name |-> name,
     path |-> path,
     content |-> content,
     original_content |-> content,
     has_unsaved_changes |-> FALSE,
     cursor_line |-> 0,
     cursor_col |-> 0,
     scroll_offset |-> 0,
     file_version |-> 1]

\* Tab::mark_dirty
mark_dirty(tab) == [tab EXCEPT !.has_unsaved_changes = TRUE]

\* Tab::mark_clean that clears the flag and keeps the old snapshot.
mark_clean_FlagOnly(tab) == [tab EXCEPT !.has_unsaved_changes = FALSE]

\* Tab::mark_clean
mark_clean(tab) ==
    [tab EXCEPT !.has_unsaved_changes = FALSE,
                !.original_content = tab.content]

\* Tab::is_dirty
is_dirty(tab) == tab.has_unsaved_changes

\* revert_changes that leaves the cursor and the scroll offset where they are.
revert_changes_KeepsView(tab) ==
    [tab EXCEPT !.content = tab.original_content,
                !.has_unsaved_changes = FALSE]

\* Tab::revert_changes
revert_changes(tab) ==
    [tab EXCEPT !.content = tab.original_content,
                !.has_unsaved_changes = FALSE,
                !.cursor_line = 0,
                !.cursor_col = 0,
                !.scroll_offset = 0]

\* ------------------------------------------------------------ TabManager

\* TabManager::tab_count
tab_count == Len(tabs)

\* TabManager::find_tab_by_path that never finds the path.
find_tab_by_path_None(ts, path) == None

\* TabManager::find_tab_by_path: position of the first tab with this path,
\* None when there is none.
find_tab_by_path(ts, path) ==
    LET hits == {k \in 0 .. (Len(ts) - 1) : At(ts, k).path = path}
    IN  IF hits = {} THEN None
        ELSE Some(CHOOSE k \in hits : \A h \in hits : k <= h)

\* The repair without the step back after a removal before the active tab.
RepairActive_NoStepBack(ts, active, index) ==
    IF Len(ts) = 0 THEN 0
    ELSE IF active >= Len(ts) THEN Len(ts) - 1
    ELSE active

\* The repair that leaves active_tab as it was.
RepairActive_Unrepaired(ts, active, index) == active

\* The active-index repair of close_tab and force_close_tab, applied after
\* the removal at index: ts is the list after the removal.
RepairActive(ts, active, index) ==
    IF Len(ts) = 0 THEN 0
    ELSE IF active >= Len(ts) THEN Len(ts) - 1
    ELSE IF index <= active /\ active > 0 THEN active - 1
    ELSE active

\* TabManager::new
TabManager_new ==
    /\ tabs = <<>>
    /\ active_tab = 0
    /\ next_id = 1
    /\ show_close_confirmation = FALSE
    /\ tab_to_close = None
    /\ pending_id = None

\* add_tab that takes the id from the length of the list, not from next_id.
add_tab_IdFromLen(name, path, content) ==
    LET existing == find_tab_by_path(tabs, path)
    IN  IF existing # None
        THEN /\ active_tab' = existing[1]
             /\ UNCHANGED <<tabs, next_id, show_close_confirmation, tab_to_close,
                            pending_id>>
        ELSE /\ next_id <= MaxId
             /\ tabs' = Append(tabs, TabNew(Len(tabs) + 1, name, path, content))
             /\ next_id' = next_id + 1
             /\ active_tab' = Len(tabs')  - 1
             /\ UNCHANGED <<show_close_confirmation, tab_to_close,
                            pending_id>>

\* TabManager::add_tab(name, path, content). The name is the file name of
\* the path.
add_tab(name, path, content) ==
    LET existing == find_tab_by_path(tabs, path)
    IN  IF existing # None
        THEN /\ active_tab' = existing[1]
             /\ UNCHANGED <<tabs, next_id, show_close_confirmation, tab_to_close,
                            pending_id>>
        ELSE /\ next_id <= MaxId
             /\ tabs' = Append(tabs, TabNew(next_id, name, path, content))
             /\ next_id' = next_id + 1
             /\ active_tab' = Len(tabs')  - 1
             /\ UNCHANGED <<show_close_confirmation, tab_to_close,
                            pending_id>>

\* What add_tab(name, path, content) returns: the index of the tab.
add_tab_ret(path) ==
    LET existing == find_tab_by_path(tabs, path)
    IN  IF existing # None THEN existing[1] ELSE (Len(tabs) + 1) - 1

AddTab == \E path \in Paths, content \in Contents : add_tab(path, path, content)

\* What force_close_tab(index) leaves in tabs and active_tab.
ForceCloseTabs(ts, index) ==
    IF index >= Len(ts) THEN ts ELSE Remove(ts, index)

ForceCloseActive(ts, active, index) ==
    IF index >= Len(ts) THEN active
    ELSE RepairActive(Remove(ts, index), active, index)

\* close_tab without the unsaved-changes check.
close_tab_NoDirtyCheck(index) ==
    IF index >= Len(tabs)
    THEN UNCHANGED vars
    ELSE /\ tabs' = Remove(tabs, index)
         /\ active_tab' = RepairActive(tabs', active_tab, index)
         /\ UNCHANGED <<next_id, show_close_confirmation, tab_to_close,
                        pending_id>>

\* TabManager::close_tab(index)
close_tab(index) ==
    IF index >= Len(tabs)
    THEN UNCHANGED vars
    ELSE IF At(tabs, index).has_unsaved_changes
    THEN /\ tab_to_close' = Some(index)
         /\ pending_id' = Some(At(tabs, index).id)
         /\ show_close_confirmation' = TRUE
         /\ UNCHANGED <<tabs, active_tab, next_id>>
    ELSE /\ tabs' = Remove(tabs, index)
         /\ active_tab' = RepairActive(tabs', active_tab, index)
         /\ UNCHANGED <<next_id, show_close_confirmation, tab_to_close,
                        pending_id>>

\* What close_tab(index) returns.
close_tab_ret(index) ==
    IF index >= Len(tabs) THEN Err("Tab index out of bounds")
    ELSE IF At(tabs, index).has_unsaved_changes THEN Err("Tab has unsaved changes")
    ELSE Ok

CloseTab == \E index \in Indexes : close_tab(index)

\* TabManager::force_close_tab(index)
force_close_tab(index) ==
    /\ tabs' = ForceCloseTabs(tabs, index)
    /\ active_tab' = ForceCloseActive(tabs, active_tab, index)
    /\ UNCHANGED <<next_id, show_close_confirmation, tab_to_close,
                   pending_id>>

\* What force_close_tab(index) returns.
force_close_tab_ret(index) ==
    IF index >= Len(tabs) THEN Err("Tab index out of bounds") ELSE Ok

ForceCloseTab == \E index \in Indexes : force_close_tab(index)

\* TabManager::confirm_close_tab: the result of force_close_tab is dropped.
confirm_close_tab ==
    /\ IF tab_to_close # None
       THEN /\ tabs' = ForceCloseTabs(tabs, tab_to_close[1])
            /\ active_tab' = ForceCloseActive(tabs, active_tab, tab_to_close[1])
       ELSE UNCHANGED <<tabs, active_tab>>
    /\ show_close_confirmation' = FALSE
    /\ tab_to_close' = None
    /\ pending_id' = None
    /\ UNCHANGED next_id

\* cancel_close_tab that leaves the confirmation prompt shown.
cancel_close_tab_KeepsPrompt ==
    /\ tab_to_close' = None
    /\ pending_id' = None
    /\ UNCHANGED <<tabs, active_tab, next_id, show_close_confirmation>>

\* TabManager::cancel_close_tab
cancel_close_tab ==
    /\ show_close_confirmation' = FALSE
    /\ tab_to_close' = None
    /\ pending_id' = None
    /\ UNCHANGED <<tabs, active_tab, next_id>>

\* TabManager::close_active_tab
close_active_tab ==
    IF Len(tabs) = 0
    THEN UNCHANGED vars
    ELSE close_tab(active_tab)

\* What close_active_tab() returns.
close_active_tab_ret ==
    IF Len(tabs) = 0 THEN Err("No tabs to close") ELSE close_tab_ret(active_tab)

\* switch_to_tab without the bounds check.
switch_to_tab_Unchecked(index) ==
    /\ active_tab' = index
    /\ UNCHANGED <<tabs, next_id, show_close_confirmation, tab_to_close,
                   pending_id>>

\* TabManager::switch_to_tab(index)
switch_to_tab(index) ==
    IF index >= Len(tabs)
    THEN UNCHANGED vars
    ELSE /\ active_tab' = index
         /\ UNCHANGED <<tabs, next_id, show_close_confirmation, tab_to_close,
                        pending_id>>

\* What switch_to_tab(index) returns.
switch_to_tab_ret(index) ==
    IF index >= Len(tabs) THEN Err("Tab index out of bounds") ELSE Ok

SwitchToTab == \E index \in Indexes : switch_to_tab(index)

\* The index next_tab stores: n is tabs.len().
NextIndex(active, n) == IF n # 0 THEN (active + 1) % n ELSE active

\* previous_tab's index without the wrap to the last tab.
PrevIndex_NoWrap(active, n) ==
    IF n # 0 THEN (IF active = 0 THEN 0 ELSE active - 1) ELSE active

\* The index previous_tab stores: n is tabs.len().
PrevIndex(active, n) ==
    IF n # 0 THEN (IF active = 0 THEN n - 1 ELSE active - 1) ELSE active

\* TabManager::next_tab
next_tab ==
    /\ active_tab' = NextIndex(active_tab, Len(tabs))
    /\ UNCHANGED <<tabs, next_id, show_close_confirmation, tab_to_close,
                   pending_id>>

\* TabManager::previous_tab
previous_tab ==
    /\ active_tab' = PrevIndex(active_tab, Len(tabs))
    /\ UNCHANGED <<tabs, next_id, show_close_confirmation, tab_to_close,
                   pending_id>>

\* TabManager::get_active_tab_mut / get_tab_mut: Vec::get_mut, None when the
\* index is out of range.
get_tab_mut(ts, index) == IF index < Len(ts) THEN Some(At(ts, index)) ELSE None

\* TabManager::save_active_tab
save_active_tab ==
    LET tab == get_tab_mut(tabs, active_tab)
    IN  IF tab # None
        THEN /\ tabs' = [tabs EXCEPT ![active_tab + 1] = mark_clean(tab[1])]
             /\ UNCHANGED <<active_tab, next_id, show_close_confirmation, tab_to_close,
                            pending_id>>
        ELSE UNCHANGED vars

\* What save_active_tab() returns.
save_active_tab_ret ==
    LET tab == get_tab_mut(tabs, active_tab)
    IN  IF tab # None THEN OkVal(mark_clean(tab[1]).content) ELSE Err("No active tab")

\* The loop of save_all_tabs without the has_unsaved_changes test.
RECURSIVE SaveAllLoop_All(_, _, _)
SaveAllLoop_All(ts, k, saved_files) ==
    IF k > Len(ts) THEN <<ts, saved_files>>
    ELSE SaveAllLoop_All([ts EXCEPT ![k] = mark_clean(ts[k])], k + 1,
                         Append(saved_files, <<ts[k].path, ts[k].content>>))

\* The loop of save_all_tabs over ts[k ..]: saved_files is the Vec built so
\* far; the result is <<the tabs after the loop, saved_files>>.
RECURSIVE SaveAllLoop(_, _, _)
SaveAllLoop(ts, k, saved_files) ==
    IF k > Len(ts) THEN <<ts, saved_files>>
    ELSE IF ts[k].has_unsaved_changes
    THEN SaveAllLoop([ts EXCEPT ![k] = mark_clean(ts[k])], k + 1,
                     Append(saved_files, <<ts[k].path, ts[k].content>>))
    ELSE SaveAllLoop(ts, k + 1, saved_files)

\* TabManager::save_all_tabs
save_all_tabs ==
    LET r == SaveAllLoop(tabs, 1, <<>>)
    IN  /\ tabs' = r[1]
        /\ UNCHANGED <<active_tab, next_id, show_close_confirmation, tab_to_close,
                       pending_id>>

\* What save_all_tabs() returns: saved_files.
save_all_tabs_ret == SaveAllLoop(tabs, 1, <<>>)[2]

\* ---------------------------------------------------------------- callers
\* Tab's fields are public and TabManager has no editing method: the owner
\* of the manager edits the focused tab through get_active_tab_mut, storing
\* the new content and calling mark_dirty; it moves the cursor by storing
\* the cursor fields, and it calls mark_dirty and revert_changes.

\* get_active_tab_mut(): tab.content = content; tab.mark_dirty()
EditContent(content) ==
    LET tab == get_tab_mut(tabs, active_tab)
    IN  /\ tab # None
        /\ tabs' = [tabs EXCEPT ![active_tab + 1] =
                        mark_dirty([tab[1] EXCEPT !.content = content])]
        /\ UNCHANGED <<active_tab, next_id, show_close_confirmation, tab_to_close,
                       pending_id>>

EditTab == \E content \in Contents : EditContent(content)

\* get_active_tab_mut(): tab.mark_dirty()
MarkDirtyTab ==
    LET tab == get_tab_mut(tabs, active_tab)
    IN  /\ tab # None
        /\ tabs' = [tabs EXCEPT ![active_tab + 1] = mark_dirty(tab[1])]
        /\ UNCHANGED <<active_tab, next_id, show_close_confirmation, tab_to_close,
                       pending_id>>

\* get_active_tab_mut(): tab.revert_changes()
RevertTab ==
    LET tab == get_tab_mut(tabs, active_tab)
    IN  /\ tab # None
        /\ tabs' = [tabs EXCEPT ![active_tab + 1] = revert_changes(tab[1])]
        /\ UNCHANGED <<active_tab, next_id, show_close_confirmation, tab_to_close,
                       pending_id>>

\* get_active_tab_mut(): the cursor and scroll fields are stored.
SetView(view) ==
    LET tab == get_tab_mut(tabs, active_tab)
    IN  /\ tab # None
        /\ tabs' = [tabs EXCEPT ![active_tab + 1] =
                        [tab[1] EXCEPT !.cursor_line = view[1],
                                       !.cursor_col = view[2],
                                       !.scroll_offset = view[3]]]
        /\ UNCHANGED <<active_tab, next_id, show_close_confirmation, tab_to_close,
                       pending_id>>

MoveCursor == \E view \in Views : SetView(view)

\* ------------------------------------------------------------------ App
\* src/src/main.rs: the file browser with its edit buffer.

\* The height of the edit window in lines (main.rs:396 and main.rs:480).
visible_lines == 30

\* The keys grow a document up to MaxLen characters; the long file is
\* followed between visible_lines - ExtraLines and MaxLines empty lines.
MaxLen == 3
ExtraLines == 2
MaxLines == visible_lines + ExtraLines

\* The characters typed into the edit buffer besides Enter: 'a' and 'd' have
\* key bindings of their own, "é" is encoded as two bytes.
LF == "\n"
CR == "\r"

\* char::len_utf8
len_utf8(ch) == IF ch = "é" THEN 2 ELSE 1

\* str::len: the length of a string in bytes.
RECURSIVE str_len(_)
str_len(s) == IF s = <<>> THEN 0 ELSE len_utf8(Head(s)) + str_len(Tail(s))

\* The line that str::lines yields for a segment that a "\n" ended: a "\r"
\* right before the "\n" belongs to the line ending.
StripCr(seg) ==
    IF seg # <<>> /\ seg[Len(seg)] = CR THEN SubSeq(seg, 1, Len(seg) - 1) ELSE seg

\* The places of the "\n" of s among its characters a .. b, in order.
RECURSIVE LineEnds(_, _, _)
LineEnds(s, a, b) ==
    IF a > b THEN <<>>
    ELSE IF a = b THEN (IF s[a] = LF THEN <<a>> ELSE <<>>)
    ELSE LineEnds(s, a, (a + b) \div 2) \o LineEnds(s, (a + b) \div 2 + 1, b)

\* str::lines().collect(): the string is split after each "\n"; what
\* follows the last "\n" is a line only if it is not empty.
lines(s) ==
    LET ends == LineEnds(s, 1, Len(s))
        start(k) == IF k = 1 THEN 1 ELSE ends[k - 1] + 1
        rest == start(Len(ends) + 1)
    IN  [k \in 1 .. Len(ends) |-> StripCr(SubSeq(s, start(k), ends[k] - 1))]
            \o (IF rest > Len(s) THEN <<>> ELSE <<SubSeq(s, rest, Len(s))>>)

\* Vec::insert(index, ch)
Insert(s, index, ch) ==
    SubSeq(s, 1, index) \o <<ch>> \o SubSeq(s, index + 1, Len(s))

Min(a, b) == IF a <= b THEN a ELSE b

\* usize::saturating_sub
saturating_sub(a, b) == IF a >= b THEN a - b ELSE 0

\* A usize that wrapped below zero is kept as the negative number it is
\* congruent to (-1 is usize::MAX): it is not 0 and it is above every length.
IsIndex(i, len) == i >= 0 /\ i <= len

\* "Auto-scroll to keep cursor visible" at the end of handle_file_edit and of
\* handle_cursor_movement: the new file_content_scroll.
auto_scroll_PageDown(line, scroll) ==
    IF line >= scroll + visible_lines THEN line
    ELSE IF line < scroll THEN line
    ELSE scroll

auto_scroll(line, scroll) ==
    IF line >= scroll + visible_lines THEN saturating_sub(line, visible_lines - 1)
    ELSE IF line < scroll THEN line
    ELSE scroll

\* The fields of the App that the browser and the edit buffer use, as one
\* value: a method is a function from this value to the value it leaves.
App ==
    [selected_index |-> selected_index,
     show_help |-> show_help,
     show_file_content |-> show_file_content,
     file_content |-> file_content,
     file_content_scroll |-> file_content_scroll,
     file_editing_mode |-> file_editing_mode,
     file_has_unsaved_changes |-> file_has_unsaved_changes,
     original_file_content |-> original_file_content,
     show_unsaved_alert |-> show_unsaved_alert,
     cursor_position |-> cursor_position,
     cursor_line |-> cursor_line,
     cursor_col |-> cursor_col,
     disk |-> disk,
     run_state |-> run_state,
     wrapping |-> wrapping]

\* The fields of self are stored back; nothing else changes.
Store(self) ==
    /\ selected_index' = self.selected_index
    /\ show_help' = self.show_help
    /\ show_file_content' = self.show_file_content
    /\ file_content' = self.file_content
    /\ file_content_scroll' = self.file_content_scroll
    /\ file_editing_mode' = self.file_editing_mode
    /\ file_has_unsaved_changes' = self.file_has_unsaved_changes
    /\ original_file_content' = self.original_file_content
    /\ show_unsaved_alert' = self.show_unsaved_alert
    /\ cursor_position' = self.cursor_position
    /\ cursor_line' = self.cursor_line
    /\ cursor_col' = self.cursor_col
    /\ disk' = self.disk
    /\ run_state' = self.run_state
    /\ wrapping' = self.wrapping
    /\ UNCHANGED <<tabVars, termVars>>

\* A panic (an index out of bounds, an overflow with overflow checks on)
\* aborts the process.
Panic(self) == [self EXCEPT !.run_state = "panicked"]

\* The characters that handle_file_edit takes as Backspace, and the other
\* control characters among the keys.
\* '\u{8}' and '\u{7f}', which handle_file_edit takes as Backspace, and
\* '\u{3}', another control character.
BS == "BS"
DEL == "DEL"
ETX == "ETX"

\* char::is_control
is_control(ch) == ch \in {BS, DEL, ETX, LF, CR, "\t"}

\* The end of handle_file_edit with a dirty flag that every call sets.
FinishEdit_SetsDirty(self, new_chars) ==
    [self EXCEPT
        !.file_content = new_chars,
        !.file_has_unsaved_changes = TRUE,
        !.file_content_scroll = auto_scroll(self.cursor_line, self.file_content_scroll)]

\* The end of handle_file_edit (main.rs:392-401): the new text is stored,
\* the dirty flag is recomputed and the window follows the cursor.
FinishEdit(self, new_chars) ==
    [self EXCEPT
        !.file_content = new_chars,
        !.file_has_unsaved_changes = (new_chars # self.original_file_content),
        !.file_content_scroll = auto_scroll(self.cursor_line, self.file_content_scroll)]

\* The cursor_col that Backspace at column 0 of a line below the first one
\* leaves: the byte length of the line above, taken from the text as it
\* was before the deletion (main.rs:372-379).
BackspaceCol(self) ==
    LET lns == lines(self.file_content)
    IN  IF self.cursor_line - 1 < Len(lns)
        THEN str_len(lns[self.cursor_line])
        ELSE self.cursor_col

\* handle_file_edit that advances cursor_position by the bytes of the
\* character it inserts.
handle_file_edit_ByteCursor(self, ch) ==
    LET chars == self.file_content
        pos == self.cursor_position
    IN  IF ch = LF
        THEN IF ~IsIndex(pos, Len(chars))
             THEN Panic(self)
             ELSE FinishEdit([self EXCEPT !.cursor_position = pos + 1,
                                          !.cursor_line = @ + 1,
                                          !.cursor_col = 0],
                             Insert(chars, pos, LF))
        ELSE IF ch \in {BS, DEL}
        THEN IF pos # 0
             THEN IF ~IsIndex(pos - 1, Len(chars) - 1)
                  THEN Panic(self)
                  ELSE FinishEdit(
                        [self EXCEPT
                            !.cursor_position = pos - 1,
                            !.cursor_col =
                                IF @ > 0 THEN @ - 1
                                ELSE IF self.cursor_line > 0 THEN BackspaceCol(self)
                                ELSE @,
                            !.cursor_line =
                                IF self.cursor_col = 0 /\ @ > 0 THEN @ - 1 ELSE @],
                        Remove(chars, pos - 1))
             ELSE FinishEdit(self, chars)
        ELSE IF is_control(ch)
        THEN FinishEdit(self, chars)
        ELSE IF ~IsIndex(pos, Len(chars))
             THEN Panic(self)
             ELSE FinishEdit([self EXCEPT !.cursor_position = pos + len_utf8(ch),
                                          !.cursor_col = @ + 1],
                             Insert(chars, pos, ch))

\* App::handle_file_edit(ch)
handle_file_edit(self, ch) ==
    LET chars == self.file_content
        pos == self.cursor_position
    IN  IF ch = LF
        THEN IF ~IsIndex(pos, Len(chars))
             THEN Panic(self)
             ELSE FinishEdit([self EXCEPT !.cursor_position = pos + 1,
                                          !.cursor_line = @ + 1,
                                          !.cursor_col = 0],
                             Insert(chars, pos, LF))
        ELSE IF ch \in {BS, DEL}
        THEN IF pos # 0
             THEN IF ~IsIndex(pos - 1, Len(chars) - 1)
                  THEN Panic(self)
                  ELSE FinishEdit(
                        [self EXCEPT
                            !.cursor_position = pos - 1,
                            !.cursor_col =
                                IF @ > 0 THEN @ - 1
                                ELSE IF self.cursor_line > 0 THEN BackspaceCol(self)
                                ELSE @,
                            !.cursor_line =
                                IF self.cursor_col = 0 /\ @ > 0 THEN @ - 1 ELSE @],
                        Remove(chars, pos - 1))
             ELSE FinishEdit(self, chars)
        ELSE IF is_control(ch)
        THEN FinishEdit(self, chars)
        ELSE IF ~IsIndex(pos, Len(chars))
             THEN Panic(self)
             ELSE FinishEdit([self EXCEPT !.cursor_position = pos + 1,
                                          !.cursor_col = @ + 1],
                             Insert(chars, pos, ch))

\* lines[line].len() if line < lines.len(), else 0 (main.rs:426-430).
line_len(lns, line) == IF line < Len(lns) THEN str_len(lns[line + 1]) ELSE 0

\* The sum of lines[i].len() + 1 over the first n lines.
RECURSIVE LineStart(_, _)
LineStart(lns, n) ==
    IF n = 0 THEN 0 ELSE LineStart(lns, n - 1) + str_len(lns[n]) + 1

\* App::recalculate_cursor_position: the new cursor_position.
recalculate_cursor_position(self) ==
    LET lns == lines(self.file_content)
        pos == LineStart(lns, Min(self.cursor_line, Len(lns))) + self.cursor_col
    IN  [self EXCEPT !.cursor_position = Min(pos, str_len(self.file_content))]

\* The match of handle_cursor_movement (main.rs:422-477), every subtraction
\* wrapping.
MoveCursorTo(self, direction) ==
    LET lns == lines(self.file_content)
        line == self.cursor_line
        col == self.cursor_col
        last == saturating_sub(Len(lns), 1)
    IN  IF direction = "Up"
        THEN IF line > 0
             THEN recalculate_cursor_position(
                    [self EXCEPT !.cursor_line = line - 1,
                                 !.cursor_col = Min(col, line_len(lns, line - 1))])
             ELSE self
        ELSE IF direction = "Down"
        THEN IF line < last
             THEN recalculate_cursor_position(
                    [self EXCEPT !.cursor_line = line + 1,
                                 !.cursor_col = Min(col, line_len(lns, line + 1))])
             ELSE self
        ELSE IF direction = "Left"
        THEN IF col > 0
             THEN [self EXCEPT !.cursor_col = col - 1,
                               !.cursor_position = @ - 1]
             ELSE IF line > 0
             THEN [self EXCEPT !.cursor_line = line - 1,
                               !.cursor_col = line_len(lns, line - 1),
                               !.cursor_position = @ - 1]
             ELSE self
        ELSE IF col < line_len(lns, line)
             THEN [self EXCEPT !.cursor_col = col + 1,
                               !.cursor_position = @ + 1]
             ELSE IF line < last
             THEN [self EXCEPT !.cursor_line = line + 1,
                               !.cursor_col = 0,
                               !.cursor_position = @ + 1]
             ELSE self

\* App::handle_cursor_movement(direction) in a build that wraps on overflow.
handle_cursor_movement(self, direction) ==
    LET moved == MoveCursorTo(self, direction)
    IN  [moved EXCEPT !.file_content_scroll =
                        auto_scroll(moved.cursor_line, self.file_content_scroll)]

\* handle_cursor_movement(direction) subtracts 1 from a cursor_position that
\* is 0 (Left), or adds 1 to one that is usize::MAX (Right): the step
\* panics in a build with overflow checks.
movement_overflows(self, direction) ==
    LET moved == MoveCursorTo(self, direction)
    IN  /\ moved.cursor_position # self.cursor_position
        /\ \/ direction = "Left" /\ self.cursor_position = 0
           \/ direction = "Right" /\ self.cursor_position = -1

\* App.files after load_directory: the parent directory and three text
\* files. The listing is the same in every directory.
Files ==
    <<[name |-> "..", is_dir |-> TRUE],
      [name |-> "two.txt", is_dir |-> FALSE],
      [name |-> "crlf.txt", is_dir |-> FALSE],
      [name |-> "long.txt", is_dir |-> FALSE]>>

\* The file of visible_lines empty lines.
LongFile == [k \in 1 .. visible_lines |-> LF]

\* What the files hold when the program starts (nothing for a directory).
DiskInit ==
    <<<<>>,
      <<"a", "a", LF, "a", "a">>,
      <<"a", CR, LF, "a">>,
      LongFile>>

\* The edits that are followed: the long file stays a sequence of empty
\* lines within ExtraLines of its length, another document grows up to
\* MaxLen characters.
IsBlank(s) == \A i \in 1 .. Len(s) : s[i] = LF
InBounds(self, edited) ==
    IF self.original_file_content = LongFile
    THEN \/ edited.file_content = self.file_content
         \/ /\ IsBlank(edited.file_content)
            /\ Len(edited.file_content) >= visible_lines - ExtraLines
            /\ Len(edited.file_content) <= MaxLines
    ELSE \/ Len(edited.file_content) <= Len(self.file_content)
         \/ Len(edited.file_content) <= MaxLen

\* App::update_cursor_position
update_cursor_position(self) ==
    [self EXCEPT !.cursor_position = 0, !.cursor_line = 0, !.cursor_col = 0]

\* App::load_directory; read_ok: fs::read_dir succeeded. An error is
\* returned up to main, which ends the program.
load_directory(self, read_ok) ==
    IF read_ok
    THEN [self EXCEPT !.selected_index = 0]
    ELSE [self EXCEPT !.selected_index = 0, !.run_state = "exited"]

\* App::navigate_up
navigate_up(self) ==
    IF self.selected_index > 0
    THEN [self EXCEPT !.selected_index = @ - 1]
    ELSE self

\* App::navigate_down
navigate_down(self) ==
    IF self.selected_index < saturating_sub(Len(Files), 1)
    THEN [self EXCEPT !.selected_index = @ + 1]
    ELSE self

\* App::open_file; read_ok: fs::read_to_string succeeded. Every file of
\* Files has a text extension (is_text_file).
open_file(self, read_ok) ==
    IF /\ self.selected_index < Len(Files)
       /\ ~At(Files, self.selected_index).is_dir
       /\ read_ok
    THEN update_cursor_position(
            [self EXCEPT !.file_content = At(self.disk, self.selected_index),
                         !.original_file_content = At(self.disk, self.selected_index),
                         !.show_file_content = TRUE,
                         !.file_content_scroll = 0,
                         !.file_editing_mode = FALSE,
                         !.file_has_unsaved_changes = FALSE])
    ELSE self

\* App::enter_directory
enter_directory(self, read_ok) ==
    IF self.selected_index < Len(Files)
    THEN IF At(Files, self.selected_index).is_dir
         THEN load_directory(self, read_ok)
         ELSE open_file(self, read_ok)
    ELSE self

\* App::toggle_hidden
toggle_hidden(self, read_ok) == load_directory(self, read_ok)

\* App::toggle_help
toggle_help(self) == [self EXCEPT !.show_help = ~@]

\* App::actually_close_file
actually_close_file(self) ==
    [self EXCEPT !.show_file_content = FALSE,
                 !.file_content = <<>>,
                 !.file_content_scroll = 0,
                 !.file_editing_mode = FALSE,
                 !.file_has_unsaved_changes = FALSE,
                 !.original_file_content = <<>>,
                 !.show_unsaved_alert = FALSE,
                 !.cursor_position = 0,
                 !.cursor_line = 0,
                 !.cursor_col = 0]

\* App::close_file
close_file(self) ==
    IF self.file_has_unsaved_changes
    THEN [self EXCEPT !.show_unsaved_alert = TRUE]
    ELSE actually_close_file(self)

\* App::toggle_edit_mode
toggle_edit_mode(self) == [self EXCEPT !.file_editing_mode = ~@]

\* App::save_file; write_ok: fs::write succeeded. run_app returns the error
\* with `?`, which ends the program.
save_file(self, write_ok) ==
    IF /\ self.selected_index < Len(Files)
       /\ ~At(Files, self.selected_index).is_dir
       /\ self.file_has_unsaved_changes
    THEN IF write_ok
         THEN [self EXCEPT !.disk[self.selected_index + 1] = self.file_content,
                           !.original_file_content = self.file_content,
                           !.file_has_unsaved_changes = FALSE]
         ELSE [self EXCEPT !.run_state = "exited"]
    ELSE self

\* App::discard_changes
discard_changes(self) ==
    actually_close_file(
        [self EXCEPT !.file_content = self.original_file_content,
                     !.file_has_unsaved_changes = FALSE,
                     !.show_unsaved_alert = FALSE])

\* App::scroll_file_up
scroll_file_up(self) ==
    IF self.file_content_scroll > 0
    THEN [self EXCEPT !.file_content_scroll = @ - 1]
    ELSE self

\* App::scroll_file_down
scroll_file_down(self) ==
    IF self.file_content_scroll < saturating_sub(Len(lines(self.file_content)), 1)
    THEN [self EXCEPT !.file_content_scroll = @ + 1]
    ELSE self

\* ------------------------------------------------------ terminal session

\* The reader thread keeps the last 100 lines (main.rs:659-660).
max_output_lines == 100

\* The output is followed for ExtraLines pushes past the cap. The chunks the
\* shell sends and the keys typed into the terminal vary while fewer than
\* MaxVaried texts were pushed onto the output; after that two runs are
\* followed: a shell that sends line after line to a pseudo-terminal since
\* it was opened, and Enter pressed again and again in a terminal without
\* one.
MaxVaried == 3
MaxOutput == max_output_lines + ExtraLines
MaxInput == 2
MaxReaders == 2

\* s is one whole line: a text and its line ending.
WholeLine(s) == Len(s) = 2 /\ s[1] # LF /\ s[2] = LF

\* What open_terminal pushes (main.rs:606-610, 616-618).
StatusOk ==
    <<"Terminal initialized successfully.", LF, "Working directory: .", LF>>
StatusErr ==
    <<"Failed to create pseudo-terminal, using fallback mode.", LF,
      "Error: openpty", LF,
      "You can still navigate files normally.", LF>>

\* Since the terminal was opened the output grew only by the whole lines
\* of the shell (by_reader) or else only by the echo of Enter.
SteadyRun(by_reader) ==
    LET head == IF by_reader THEN StatusOk ELSE StatusErr
    IN  /\ appended # <<>>
        /\ appended[1] = head
        /\ \A i \in 2 .. Len(appended) :
              appended[i] = IF by_reader THEN <<ToString(i - 1), LF>>
                            ELSE <<"(no terminal) ", LF>>

\* The output may grow by text, pushed by the reader thread or else by the
\* UI thread.
MayPush(text, by_reader) ==
    \/ text = <<>>
    \/ Len(appended) < MaxVaried
    \/ /\ Len(appended) < MaxOutput
       /\ WholeLine(text)
       /\ SteadyRun(by_reader)
       /\ terminal_input = <<>>
       /\ terminal_pty = by_reader

\* [T]::join("\n")
RECURSIVE JoinRange(_, _, _)
JoinRange(lns, a, b) ==
    IF a = b THEN lns[a]
    ELSE JoinRange(lns, a, (a + b) \div 2) \o <<LF>>
             \o JoinRange(lns, (a + b) \div 2 + 1, b)

Join(lns) == IF lns = <<>> THEN <<>> ELSE JoinRange(lns, 1, Len(lns))

\* lines[lines.len() - n ..]
LastN(lns, n) == SubSeq(lns, Len(lns) - n + 1, Len(lns))

\* The body of the reader thread under the lock (main.rs:656-661): the text
\* is pushed and the output is cut to its last 100 lines.
reader_push(output, text) ==
    LET pushed == output \o text
        lns == lines(pushed)
    IN  IF Len(lns) > max_output_lines
        THEN Join(LastN(lns, max_output_lines))
        ELSE pushed

\* The rows of the pseudo-terminal (PtySize.rows).
rows == 8

\* The texts one read of the pseudo-terminal may return: the next line of
\* the shell's output, numbered, whole or without its line ending, or a
\* screenful of lines in one chunk.
Chunks ==
    LET text == ToString(Len(appended))
        screenful == [i \in 1 .. 2 * rows |-> IF i % 2 = 0 THEN LF ELSE text]
    IN  IF Len(appended) < MaxVaried
        THEN {<<text, LF>>, <<text>>, <<text, CR, LF>>, screenful}
        ELSE {<<text, LF>>}

\* output.push_str(text) by the UI thread, under the lock.
PushOutput(text) ==
    /\ text # <<>> => lock = None
    /\ terminal_output' = terminal_output \o text
    /\ appended' = IF text = <<>> THEN appended ELSE Append(appended, text)

\* The number of reader threads that are inside reader.read.
reading == readers - (IF lock = None THEN 0 ELSE 1)

\* A reader thread that takes the lock before it reads.
ReaderRead_LocksFirst ==
    /\ run_state \notin {"exited", "panicked"}
    /\ reading > 0
    /\ lock = None
    /\ lock' = Some(<<>>)
    /\ UNCHANGED <<tabVars, editVars, run_state, show_terminal, terminal_output,
                   terminal_input, terminal_pty, terminal_receiver, readers,
                   appended, written, echoed, pty_line>>

\* The reader thread (main.rs:648-668): reader.read returns a chunk
\* (main.rs:651-654) and the thread takes the lock of the output
\* (main.rs:655), for which it waits until the lock is free.
ReaderRead ==
    /\ run_state \notin {"exited", "panicked"}
    /\ reading > 0
    /\ lock = None
    /\ \E text \in Chunks :
        /\ MayPush(text, TRUE)
        /\ lock' = Some(text)
    /\ UNCHANGED <<tabVars, editVars, run_state, show_terminal, terminal_output,
                   terminal_input, terminal_pty, terminal_receiver, readers,
                   appended, written, echoed, pty_line>>

\* The reader thread holds the lock (main.rs:655-662): it pushes the chunk
\* it read, cuts the output and releases the lock; it then sends the chunk
\* on the channel (main.rs:663), which does not block, and reads again.
ReaderPush ==
    /\ run_state \notin {"exited", "panicked"}
    /\ lock # None
    /\ LET text == lock[1]
       IN  /\ text # <<>>
           /\ terminal_output' = reader_push(terminal_output, text)
           /\ appended' = Append(appended, text)
    /\ lock' = None
    /\ UNCHANGED <<tabVars, editVars, run_state, show_terminal, terminal_input,
                   terminal_pty, terminal_receiver, readers, written, echoed,
                   pty_line>>

\* A reader thread reads end of file or an error and ends (main.rs:652,
\* 666).
ReaderExit ==
    /\ run_state \notin {"exited", "panicked"}
    /\ reading > 0
    /\ readers' = readers - 1
    /\ UNCHANGED <<tabVars, editVars, run_state, show_terminal, terminal_output,
                   terminal_input, terminal_pty, terminal_receiver, appended,
                   written, echoed, lock, pty_line>>

\* App::try_create_pty, called by open_terminal; created: the pseudo-
\* terminal, the shell and the reader handle could all be made, so the
\* reader thread is started and the handles are stored. The UI thread is
\* then in open_terminal, before it takes the lock.
try_create_pty(created) ==
    /\ IF created
       THEN /\ terminal_pty' = TRUE
            /\ terminal_receiver' = TRUE
            /\ readers' = readers + 1
            /\ pty_line' = Some(<<>>)
            /\ run_state' = "open_terminal_ok"
       ELSE /\ UNCHANGED <<terminal_pty, terminal_receiver, readers, pty_line>>
            /\ run_state' = "open_terminal_err"
    /\ UNCHANGED <<tabVars, editVars, show_terminal, terminal_output,
                   terminal_input, appended, written, echoed, lock>>

\* The rest of App::open_terminal (main.rs:603-623): the status lines are
\* pushed under the lock and the terminal is shown.
open_terminal ==
    /\ run_state \in {"open_terminal_ok", "open_terminal_err"}
    /\ IF run_state = "open_terminal_ok"
       THEN PushOutput(StatusOk)
       ELSE PushOutput(StatusErr)
    /\ show_terminal' = TRUE
    /\ run_state' = "running"
    /\ UNCHANGED <<tabVars, editVars, terminal_input, terminal_pty,
                   terminal_receiver, readers, written, echoed, lock,
                   pty_line>>

\* App::toggle_terminal
toggle_terminal_KeepsOutput ==
    IF show_terminal
    THEN /\ show_terminal' = FALSE
         /\ terminal_pty' = FALSE
         /\ terminal_receiver' = FALSE
         /\ terminal_input' = <<>>
         /\ pty_line' = None
         /\ UNCHANGED <<tabVars, editVars, run_state, readers, written, echoed,
                        terminal_output, appended, lock>>
    ELSE \E created \in BOOLEAN :
            /\ created => readers < MaxReaders
            /\ try_create_pty(created)

toggle_terminal ==
    IF show_terminal
    THEN /\ lock = None
         /\ show_terminal' = FALSE
         /\ terminal_pty' = FALSE
         /\ terminal_receiver' = FALSE
         /\ terminal_output' = <<>>
         /\ appended' = <<>>
         /\ terminal_input' = <<>>
         /\ pty_line' = None
         /\ UNCHANGED <<tabVars, editVars, run_state, readers, written, echoed,
                        lock>>
    ELSE \E created \in BOOLEAN :
            /\ created => readers < MaxReaders
            /\ try_create_pty(created)

\* What send_to_terminal(input) pushes onto the output; writer: take_writer
\* returned a writer (the input is then written to the pseudo-terminal).
Echo(input, writer) ==
    IF terminal_pty
    THEN IF writer THEN <<>> ELSE input
    ELSE <<"(no terminal) ">> \o input

\* What send_to_terminal(input) writes to the pseudo-terminal
\* (writer.write_all, main.rs:680).
Written(input, writer) ==
    IF terminal_pty /\ writer THEN input ELSE <<>>

\* The line of the pseudo-terminal after the write of input
\* (writer.write_all, main.rs:680): a write that follows a line terminator
\* starts a new line, and the sequence that handle_terminal_input sends for
\* a backspace (main.rs:711) takes the last character away.
Received(line, input) ==
    LET current == IF line # <<>> /\ line[Len(line)] = LF THEN <<>> ELSE line
    IN  IF input = <<BS, " ", BS>>
        THEN SubSeq(current, 1, Len(current) - 1)
        ELSE current \o input

\* pty_line after send_to_terminal(input): the record ends with a send that
\* does not reach the writer (main.rs:683-688) and with the interrupt
\* character, which is no part of a line.
Forwarded(input, writer) ==
    IF pty_line = None \/ ~terminal_pty \/ ~writer \/ input = <<ETX>>
    THEN None
    ELSE Some(Received(pty_line[1], input))

\* App::send_to_terminal(input), with terminal_input left as new_input by
\* the caller. The UI thread is then on its way back to the top of the loop
\* of run_app, where it draws the next frame.
send_to_terminal(input, new_input) ==
    /\ \E writer \in BOOLEAN :
        LET text == Echo(input, writer)
        IN  /\ MayPush(text, FALSE)
            /\ PushOutput(text)
            /\ echoed' = text
            /\ written' = Written(input, writer)
            /\ pty_line' = Forwarded(input, writer)
    /\ run_state' = "draw"
    /\ terminal_input' = new_input
    /\ UNCHANGED <<tabVars, editVars, show_terminal, terminal_pty,
                   terminal_receiver, readers, lock>>

\* handle_terminal_input with an Enter that sends the line terminator
\* alone.
handle_terminal_input_BareEnter(ch) ==
    IF ch \in {CR, LF}
    THEN send_to_terminal(<<LF>>, <<>>)
    ELSE IF ch \in {BS, DEL}
    THEN IF terminal_input # <<>>
         THEN send_to_terminal(<<BS, " ", BS>>,
                               SubSeq(terminal_input, 1, Len(terminal_input) - 1))
         ELSE UNCHANGED vars
    ELSE /\ Len(terminal_input) < MaxInput
         /\ Len(appended) < MaxVaried
         /\ send_to_terminal(<<ch>>, Append(terminal_input, ch))

\* App::handle_terminal_input(ch)
handle_terminal_input(ch) ==
    IF ch \in {CR, LF}
    THEN send_to_terminal(terminal_input \o <<LF>>, <<>>)
    ELSE IF ch \in {BS, DEL}
    THEN IF terminal_input # <<>>
         THEN send_to_terminal(<<BS, " ", BS>>,
                               SubSeq(terminal_input, 1, Len(terminal_input) - 1))
         ELSE UNCHANGED vars
    ELSE /\ Len(terminal_input) < MaxInput
         /\ Len(appended) < MaxVaried
         /\ send_to_terminal(<<ch>>, Append(terminal_input, ch))

\* ---------------------------------------------------------------- run_app
\* One action for each arm of the key match of run_app (main.rs:1185-1340).

\* The terminal pane of a frame (ui, main.rs:908-929): the last rows lines
\* of the output and, below them, the prompt with the input typed so far.
snapshot(output, input) ==
    LET lns == lines(output)
        visible == IF Len(lns) > rows THEN LastN(lns, rows) ELSE lns
    IN  Append(visible, <<"$ ">> \o input)

\* terminal.draw(|f| ui(f, &mut app)) at the top of the loop of run_app,
\* for the frame that follows a call of send_to_terminal: the pane shows
\* snapshot(terminal_output, terminal_input) and run_app polls the next key.
ui ==
    /\ run_state = "draw"
    /\ show_terminal => lock = None
    /\ run_state' = "running"
    /\ echoed' = <<>>
    /\ written' = <<>>
    /\ UNCHANGED <<tabVars, editVars, show_terminal, terminal_output,
                   terminal_input, terminal_pty, terminal_receiver, readers,
                   appended, lock, pty_line>>

\* app.handle_file_edit(ch), for the documents within the bounds.
HandleFileEdit(ch) ==
    LET edited == handle_file_edit(App, ch)
    IN  /\ InBounds(App, edited)
        /\ Store(edited)

\* app.handle_cursor_movement(direction): an overflowing subtraction panics
\* in a build with overflow checks and wraps in one without.
HandleCursorMovement(direction) ==
    IF movement_overflows(App, direction)
    THEN \/ ~wrapping /\ Store(Panic(App))
         \/ Store([handle_cursor_movement(App, direction) EXCEPT !.wrapping = TRUE])
    ELSE Store(handle_cursor_movement(App, direction))

\* KeyCode::Char('q') | KeyCode::Esc
KeyQ ==
    /\ run_state = "running"
    /\ IF show_unsaved_alert THEN Store([App EXCEPT !.show_unsaved_alert = FALSE])
       ELSE IF show_terminal THEN toggle_terminal
       ELSE IF show_file_content THEN Store(close_file(App))
       ELSE IF show_help THEN Store(toggle_help(App))
       ELSE Store([App EXCEPT !.run_state = "exited"])

\* KeyCode::Up | KeyCode::Char('k')
KeyUp ==
    /\ run_state = "running"
    /\ IF show_unsaved_alert \/ show_terminal THEN UNCHANGED vars
       ELSE IF show_file_content /\ file_editing_mode THEN HandleCursorMovement("Up")
       ELSE IF show_file_content /\ ~file_editing_mode THEN Store(scroll_file_up(App))
       ELSE IF ~show_help /\ ~show_file_content THEN Store(navigate_up(App))
       ELSE UNCHANGED vars

\* The arm of Down with a navigation that does not look at show_file_content.
KeyDown_Navigates ==
    /\ run_state = "running"
    /\ IF show_unsaved_alert \/ show_terminal THEN UNCHANGED vars
       ELSE IF ~show_help THEN Store(navigate_down(App))
       ELSE UNCHANGED vars

\* KeyCode::Down | KeyCode::Char('j')
KeyDown ==
    /\ run_state = "running"
    /\ IF show_unsaved_alert \/ show_terminal THEN UNCHANGED vars
       ELSE IF show_file_content /\ file_editing_mode THEN HandleCursorMovement("Down")
       ELSE IF show_file_content /\ ~file_editing_mode THEN Store(scroll_file_down(App))
       ELSE IF ~show_help /\ ~show_file_content THEN Store(navigate_down(App))
       ELSE UNCHANGED vars

\* KeyCode::Enter
KeyEnter ==
    /\ run_state = "running"
    /\ IF show_unsaved_alert THEN UNCHANGED vars
       ELSE IF show_terminal THEN handle_terminal_input(LF)
       ELSE IF file_editing_mode THEN HandleFileEdit(LF)
       ELSE IF ~show_help /\ ~show_file_content
       THEN IF file_has_unsaved_changes
            THEN Store([App EXCEPT !.show_unsaved_alert = TRUE])
            ELSE \E read_ok \in BOOLEAN : Store(enter_directory(App, read_ok))
       ELSE UNCHANGED vars

\* KeyCode::Left
KeyLeft ==
    /\ run_state = "running"
    /\ IF file_editing_mode /\ ~show_unsaved_alert
       THEN HandleCursorMovement("Left")
       ELSE UNCHANGED vars

\* KeyCode::Right
KeyRight ==
    /\ run_state = "running"
    /\ IF file_editing_mode /\ ~show_unsaved_alert
       THEN HandleCursorMovement("Right")
       ELSE UNCHANGED vars

\* KeyCode::Char('a')
KeyCharA ==
    /\ run_state = "running"
    /\ IF show_unsaved_alert THEN UNCHANGED vars
       ELSE IF show_terminal THEN handle_terminal_input("a")
       ELSE IF file_editing_mode THEN HandleFileEdit("a")
       ELSE IF ~show_help /\ ~show_file_content
       THEN \E read_ok \in BOOLEAN : Store(toggle_hidden(App, read_ok))
       ELSE UNCHANGED vars

\* KeyCode::Char('h')
KeyCharH ==
    /\ run_state = "running"
    /\ IF show_unsaved_alert THEN UNCHANGED vars
       ELSE IF show_terminal THEN handle_terminal_input("h")
       ELSE IF file_editing_mode THEN HandleFileEdit("h")
       ELSE IF ~show_file_content THEN Store(toggle_help(App))
       ELSE UNCHANGED vars

\* KeyCode::Char('t') with Ctrl
KeyCtrlT ==
    /\ run_state = "running"
    /\ IF ~show_unsaved_alert THEN toggle_terminal ELSE UNCHANGED vars

\* KeyCode::Char('s') with Ctrl
KeyCtrlS ==
    /\ run_state = "running"
    /\ \E write_ok \in BOOLEAN :
        IF show_file_content /\ file_editing_mode
        THEN Store(save_file(App, write_ok))
        ELSE IF show_unsaved_alert
        THEN LET saved == save_file(App, write_ok)
             IN  Store(IF saved.run_state = "exited" THEN saved
                       ELSE actually_close_file(saved))
        ELSE UNCHANGED vars

\* KeyCode::Char('e')
KeyCharE ==
    /\ run_state = "running"
    /\ IF show_file_content /\ ~show_unsaved_alert
       THEN Store(toggle_edit_mode(App))
       ELSE UNCHANGED vars

\* KeyCode::Char('d')
KeyCharD ==
    /\ run_state = "running"
    /\ IF show_unsaved_alert THEN Store(discard_changes(App))
       ELSE IF file_editing_mode THEN HandleFileEdit("d")
       ELSE UNCHANGED vars

\* KeyCode::Char('c') with Ctrl
KeyCtrlC ==
    /\ run_state = "running"
    /\ IF show_unsaved_alert THEN UNCHANGED vars
       ELSE IF show_terminal THEN send_to_terminal(<<ETX>>, terminal_input)
       ELSE Store([App EXCEPT !.run_state = "exited"])

\* KeyCode::Backspace
KeyBackspace ==
    /\ run_state = "running"
    /\ IF show_unsaved_alert THEN UNCHANGED vars
       ELSE IF show_terminal THEN handle_terminal_input(BS)
       ELSE IF file_editing_mode THEN HandleFileEdit(BS)
       ELSE UNCHANGED vars

\* KeyCode::Char(c), for a character no earlier arm matches.
KeyCharOther(c) ==
    /\ run_state = "running"
    /\ IF show_unsaved_alert
       THEN IF c = "s"
            THEN \E write_ok \in BOOLEAN :
                    LET saved == save_file(App, write_ok)
                    IN  Store(IF saved.run_state = "exited" THEN saved
                              ELSE actually_close_file(saved))
            ELSE IF c = "c" THEN Store([App EXCEPT !.show_unsaved_alert = FALSE])
            ELSE UNCHANGED vars
       ELSE IF show_terminal THEN handle_terminal_input(c)
       ELSE IF file_editing_mode THEN HandleFileEdit(c)
       ELSE UNCHANGED vars

\* A character with a multi-byte encoding is typed.
KeyChar == KeyCharOther("é")

\* 'c' is typed: the answer "cancel" to the alert.
KeyCharC == KeyCharOther("c")

\* 's' is typed: the answer "save" to the alert.
KeyCharS == KeyCharOther("s")

\* App::new (main.rs:178-211) after load_directory: no file is open and no
\* terminal is shown.
App_new ==
    /\ selected_index = 0
    /\ show_help = FALSE
    /\ show_file_content = FALSE
    /\ file_content = <<>>
    /\ file_content_scroll = 0
    /\ file_editing_mode = FALSE
    /\ file_has_unsaved_changes = FALSE
    /\ original_file_content = <<>>
    /\ show_unsaved_alert = FALSE
    /\ cursor_position = 0
    /\ cursor_line = 0
    /\ cursor_col = 0
    /\ disk = DiskInit
    /\ run_state = "running"
    /\ wrapping = FALSE
    /\ show_terminal = FALSE
    /\ terminal_output = <<>>
    /\ terminal_input = <<>>
    /\ terminal_pty = FALSE
    /\ terminal_receiver = FALSE
    /\ readers = 0
    /\ appended = <<>>
    /\ written = <<>>
    /\ echoed = <<>>
    /\ lock = None
    /\ pty_line = None

\* The program starts with a new TabManager and a new App.
Init == TabManager_new /\ App_new

\* The App is not touched by the TabManager.
appVars == <<editVars, run_state, termVars>>

\* The tab manager and its caller.
Next ==
    \/ AddTab /\ UNCHANGED appVars
    \/ CloseTab /\ UNCHANGED appVars
    \/ ForceCloseTab /\ UNCHANGED appVars
    \/ confirm_close_tab /\ UNCHANGED appVars
    \/ cancel_close_tab /\ UNCHANGED appVars
    \/ close_active_tab /\ UNCHANGED appVars
    \/ SwitchToTab /\ UNCHANGED appVars
    \/ next_tab /\ UNCHANGED appVars
    \/ previous_tab /\ UNCHANGED appVars
    \/ save_active_tab /\ UNCHANGED appVars
    \/ save_all_tabs /\ UNCHANGED appVars
    \/ EditTab /\ UNCHANGED appVars
    \/ MarkDirtyTab /\ UNCHANGED appVars
    \/ RevertTab /\ UNCHANGED appVars

Spec == Init /\ [][Next]_vars

\* The manager with a caller that also moves the cursor of the focused tab.
NextView ==
    \/ AddTab /\ UNCHANGED appVars
    \/ ForceCloseTab /\ UNCHANGED appVars
    \/ SwitchToTab /\ UNCHANGED appVars
    \/ EditTab /\ UNCHANGED appVars
    \/ MarkDirtyTab /\ UNCHANGED appVars
    \/ RevertTab /\ UNCHANGED appVars
    \/ MoveCursor /\ UNCHANGED appVars

SpecView == Init /\ [][NextView]_vars

\* The manager with a caller that, while a close waits for its confirmation,
\* adds tabs, closes tabs, changes the focus and saves, and that edits the
\* focused tab only while no close is pending.
NextPending ==
    \/ AddTab /\ UNCHANGED appVars
    \/ CloseTab /\ UNCHANGED appVars
    \/ confirm_close_tab /\ UNCHANGED appVars
    \/ SwitchToTab /\ UNCHANGED appVars
    \/ next_tab /\ UNCHANGED appVars
    \/ previous_tab /\ UNCHANGED appVars
    \/ save_active_tab /\ UNCHANGED appVars
    \/ save_all_tabs /\ UNCHANGED appVars
    \/ tab_to_close = None /\ MarkDirtyTab /\ UNCHANGED appVars

SpecPending == Init /\ [][NextPending]_vars

\* The browser and the edit buffer: the keys that open, edit and close a
\* file, with the terminal closed and nothing saved.
NextEdit ==
    \/ KeyQ
    \/ KeyUp
    \/ KeyDown
    \/ KeyEnter
    \/ KeyLeft
    \/ KeyRight
    \/ KeyCharA
    \/ KeyCharE
    \/ KeyBackspace
    \/ KeyChar

SpecEdit == Init /\ [][NextEdit]_vars

\* The edit buffer and its file: the keys that open a file, edit it, save
\* it, close it and answer the unsaved-changes alert, and the keys that
\* quit. The letters d, s and c are pressed as answers to the alert, and
\* the file that is opened is the first one of the listing.
NextSave ==
    \/ KeyQ
    \/ (show_file_content \/ selected_index < 1) /\ KeyDown
    \/ KeyEnter
    \/ KeyRight
    \/ KeyCharA
    \/ KeyCharE
    \/ KeyBackspace
    \/ KeyCtrlS
    \/ KeyCtrlC
    \/ show_unsaved_alert /\ KeyCharD
    \/ show_unsaved_alert /\ KeyCharS
    \/ show_unsaved_alert /\ KeyCharC

SpecSave == Init /\ [][NextSave]_vars

\* The terminal session: the keys that open it, type into it and close it,
\* the two halves of open_terminal, the frame drawn after an echo, and the
\* reader threads.
NextTerm ==
    \/ KeyCtrlT \/ open_terminal \/ KeyEnter \/ KeyCharA \/ KeyBackspace
    \/ KeyCtrlC \/ KeyQ \/ ui \/ ReaderRead \/ ReaderPush \/ ReaderExit

SpecTerm == Init /\ [][NextTerm]_vars

\* The terminal opened over a file that is open in the editor: the keys that
\* open the first file, enter edit mode, move the cursor and delete in the
\* editor, the keys that open and close the terminal, `a` and `d` pressed
\* while the terminal is shown, and the frame drawn after an echo.
NextEditTerm ==
    \/ (show_file_content \/ selected_index < 1) /\ KeyDown
    \/ KeyEnter
    \/ KeyCharE
    \/ KeyLeft
    \/ KeyRight
    \/ show_terminal /\ KeyCharA
    \/ ~show_terminal /\ KeyBackspace
    \/ show_terminal /\ KeyCharD
    \/ KeyCtrlT
    \/ open_terminal
    \/ ui

SpecEditTerm == Init /\ [][NextEditTerm]_vars

\* ------------------------------------------------------------- properties

\* The valid indices of a Vec.
Idx(ts) == 0 .. (Len(ts) - 1)

\* ts2 is ts without the element at index, the rest in order and unchanged.
IsWithout(ts2, ts, index) ==
    /\ Len(ts2) = Len(ts) - 1
    /\ \A k \in Idx(ts2) : At(ts2, k) = At(ts, IF k < index THEN k ELSE k + 1)

\* C1: whenever the tab list is non-empty 0 <= active_tab < tab_count(), and
\* with an empty list (the manager is new, or a removal emptied the list)
\* active_tab is 0.
C1_ActiveInRange ==
    IF Len(tabs) = 0 THEN active_tab = 0 ELSE active_tab \in Idx(tabs)

\* Three tabs were created and one was removed; the last of the two that are
\* left is focused.
C1_Witness ==
    /\ Len(tabs) = 2
    /\ next_id = 4
    /\ active_tab = 1

\* C2: close_tab(i) on a clean tab removes it at once, returns Ok and does
\* not touch the pending close (tab_to_close and show_close_confirmation keep
\* their values, so None stays None and false stays false); close_tab(i) on a
\* dirty tab sets tab_to_close = Some(i) and show_close_confirmation = true,
\* returns an error and removes nothing; and a pending close ends only in
\* confirm_close_tab or cancel_close_tab.
C2_CloseTab ==
    /\ [][\A i \in Indexes :
            (i < Len(tabs) /\ close_tab(i)) =>
                IF At(tabs, i).has_unsaved_changes
                THEN /\ tab_to_close' = Some(i)
                     /\ show_close_confirmation' = TRUE
                     /\ tabs' = tabs
                     /\ Len(tabs') = Len(tabs)
                     /\ close_tab_ret(i).kind = "Err"
                ELSE /\ IsWithout(tabs', tabs, i)
                     /\ close_tab_ret(i) = Ok
                     /\ tab_to_close' = tab_to_close
                     /\ show_close_confirmation' = show_close_confirmation]_vars
    /\ [][(tab_to_close # None /\ tab_to_close' = None) =>
            (confirm_close_tab \/ cancel_close_tab)]_vars

\* close_tab(1) has put the dirty second of three tabs into
\* PendingConfirmation, and the three tabs are still there.
C2_Witness ==
    /\ tab_to_close = Some(1)
    /\ show_close_confirmation
    /\ Len(tabs) = 3
    /\ next_id = 4
    /\ At(tabs, 1).has_unsaved_changes

\* C3 as stated: whenever a close is pending, confirm_close_tab reduces
\* tab_count() by exactly 1, leaves every other tab unchanged and clears
\* tab_to_close and show_close_confirmation.
C3_ConfirmRemovesOne ==
    [][(tab_to_close # None /\ confirm_close_tab) =>
            /\ Len(tabs') = Len(tabs) - 1
            /\ \E i \in Idx(tabs) : IsWithout(tabs', tabs, i)
            /\ tab_to_close' = None
            /\ show_close_confirmation' = FALSE]_vars

\* C4: add_tab with a path that is already open returns the index of the
\* existing tab and focuses it, and changes neither the tab list (count,
\* contents, dirty flags) nor next_id; no two tabs ever have the same path.
C4_NoDuplicatePaths ==
    \A j, k \in Idx(tabs) : j # k => At(tabs, j).path # At(tabs, k).path

C4_AddExisting ==
    /\ C4_NoDuplicatePaths
    /\ [][C4_NoDuplicatePaths']_vars
    /\ [][\A path \in Paths, content \in Contents : \A k \in Idx(tabs) :
            (At(tabs, k).path = path /\ add_tab(path, path, content)) =>
                /\ add_tab_ret(path) = k
                /\ active_tab' = k
                /\ tabs' = tabs
                /\ next_id' = next_id]_vars

\* The first of three tabs is focused again, dirty and with a content that
\* differs from the one it was loaded with: add_tab with its path, whatever
\* content is passed, leads here from any focus.
C4_Witness ==
    /\ Len(tabs) = 3
    /\ active_tab = 0
    /\ At(tabs, 0).path = "b.txt"
    /\ At(tabs, 0).has_unsaved_changes
    /\ At(tabs, 0).content # At(tabs, 0).original_content

\* C5: cancel_close_tab clears tab_to_close and show_close_confirmation and
\* changes neither the tab list nor active_tab nor next_id.
C5_CancelFrame ==
    [][cancel_close_tab =>
            /\ tab_to_close' = None
            /\ show_close_confirmation' = FALSE
            /\ tabs' = tabs
            /\ active_tab' = active_tab
            /\ next_id' = next_id]_vars

\* A close of the dirty first tab is pending while the second tab is
\* focused: cancel_close_tab is called in this state.
C5_Witness ==
    /\ tab_to_close = Some(0)
    /\ show_close_confirmation
    /\ Len(tabs) = 2
    /\ active_tab = 1
    /\ At(tabs, 0).has_unsaved_changes

\* n applications of next_tab's index step to index a of a list of n tabs.
RECURSIVE NextTimes(_, _, _)
NextTimes(a, n, times) ==
    IF times = 0 THEN a ELSE NextTimes(NextIndex(a, n), n, times - 1)

\* C6: with n > 0 tabs next_tab stores (active_tab + 1) mod n and previous_tab
\* (active_tab - 1) mod n; with no tabs both leave active_tab alone; neither
\* changes the tab list; previous after next and next after previous restore
\* the index, and so do n applications of next.
C6_RoundTrip ==
    LET n == Len(tabs)
    IN  /\ PrevIndex(NextIndex(active_tab, n), n) = active_tab
        /\ NextIndex(PrevIndex(active_tab, n), n) = active_tab
        /\ NextTimes(active_tab, n, n) = active_tab

C6_Rotation ==
    /\ C6_RoundTrip
    /\ [][C6_RoundTrip']_vars
    /\ [][next_tab =>
            /\ active_tab' = IF Len(tabs) > 0
                             THEN (active_tab + 1) % Len(tabs) ELSE active_tab
            /\ tabs' = tabs]_vars
    /\ [][previous_tab =>
            /\ active_tab' = IF Len(tabs) > 0
                             THEN (active_tab + Len(tabs) - 1) % Len(tabs)
                             ELSE active_tab
            /\ tabs' = tabs]_vars

\* Three tabs with the first focused while the last is dirty: previous_tab
\* wraps to index 2 from here and next_tab wraps back.
C6_Witness ==
    /\ Len(tabs) = 3
    /\ active_tab = 0
    /\ At(tabs, 2).has_unsaved_changes
    /\ tab_to_close = None

\* C7: the ids in the tab list are strictly increasing (so unique, and in
\* insertion order) and below next_id; next_id never decreases; a tab that a
\* step adds carries an id that is at least the next_id before the step, so
\* greater than every id assigned before, and it is added at the end.
C7_IdsIncreasing ==
    /\ \A j, k \in Idx(tabs) : j < k => At(tabs, j).id < At(tabs, k).id
    /\ \A k \in Idx(tabs) : At(tabs, k).id < next_id

C7_UniqueIds ==
    /\ C7_IdsIncreasing
    /\ [][/\ C7_IdsIncreasing'
          /\ next_id' >= next_id
          /\ \A k \in Idx(tabs') :
                (\A j \in Idx(tabs) : At(tabs, j).id # At(tabs', k).id) =>
                    /\ At(tabs', k).id >= next_id
                    /\ At(tabs', k).id < next_id'
                    /\ k = Len(tabs') - 1]_vars

\* Tab 3 was created after tab 1 was closed: the ids in the list are 2, 3.
C7_Witness ==
    /\ Len(tabs) = 2
    /\ At(tabs, 0).id = 2
    /\ At(tabs, 1).id = 3
    /\ active_tab = 1

\* C8: add_tab with a path that is not open appends exactly one tab, focuses
\* it and returns its index tab_count() - 1; the new tab is clean, with
\* content == original_content and cursor and scroll at 0; the tabs that were
\* there are unchanged.
C8_AddNew ==
    [][\A path \in Paths, content \in Contents :
        ((\A k \in Idx(tabs) : At(tabs, k).path # path)
            /\ add_tab(path, path, content)) =>
                LET new == At(tabs', Len(tabs))
                IN  /\ Len(tabs') = Len(tabs) + 1
                    /\ \A k \in Idx(tabs) : At(tabs', k) = At(tabs, k)
                    /\ active_tab' = Len(tabs') - 1
                    /\ add_tab_ret(path) = Len(tabs') - 1
                    /\ new.path = path
                    /\ new.content = content
                    /\ new.original_content = content
                    /\ new.has_unsaved_changes = FALSE
                    /\ new.cursor_line = 0
                    /\ new.cursor_col = 0
                    /\ new.scroll_offset = 0]_vars

\* A clean second tab with cursor and scroll at 0 was appended behind an
\* edited tab whose cursor has moved, and it is focused.
C8_Witness ==
    /\ Len(tabs) = 2
    /\ next_id = 3
    /\ active_tab = 1
    /\ At(tabs, 0).has_unsaved_changes
    /\ At(tabs, 0).content # At(tabs, 0).original_content
    /\ At(tabs, 0).cursor_line = 2
    /\ ~At(tabs, 1).has_unsaved_changes
    /\ At(tabs, 1).cursor_line = 0

\* C9: save_active_tab with no tabs returns the no-active-tab error and
\* changes nothing; otherwise it sets the active tab's original_content to
\* its content and clears its dirty flag, returns that content, and leaves
\* the tab's other fields, every other tab and active_tab unchanged.
C9_SaveActive ==
    [][save_active_tab =>
        IF Len(tabs) = 0
        THEN /\ save_active_tab_ret = Err("No active tab")
             /\ UNCHANGED vars
        ELSE LET old == At(tabs, active_tab)
                 new == At(tabs', active_tab)
             IN  /\ save_active_tab_ret = OkVal(old.content)
                 /\ new = [old EXCEPT !.original_content = old.content,
                                      !.has_unsaved_changes = FALSE]
                 /\ new.content = old.content
                 /\ Len(tabs') = Len(tabs)
                 /\ \A k \in Idx(tabs) : k # active_tab => At(tabs', k) = At(tabs, k)
                 /\ UNCHANGED <<active_tab, next_id, show_close_confirmation,
                                tab_to_close>>]_vars

\* The focused first tab is dirty with a content that differs from its
\* snapshot, and the second tab is dirty too: save_active_tab commits the
\* first and must leave the second alone.
C9_Witness ==
    /\ Len(tabs) = 2
    /\ active_tab = 0
    /\ At(tabs, 0).has_unsaved_changes
    /\ At(tabs, 0).content = "y"
    /\ At(tabs, 0).original_content = "x"
    /\ At(tabs, 1).has_unsaved_changes
    /\ At(tabs, 1).content # At(tabs, 1).original_content

\* The (path, content) pairs of the dirty tabs of ts, in tab order.
DirtyPairs(ts) ==
    LET dirty == SelectSeq(ts, LAMBDA t : t.has_unsaved_changes)
    IN  [j \in 1 .. Len(dirty) |-> <<dirty[j].path, dirty[j].content>>]

\* C10: save_all_tabs returns one (path, content) pair for each tab that was
\* dirty before the call, in tab order and with the tab's content, and none
\* for a clean tab; afterwards no tab is dirty and every tab has
\* original_content == content; no content changes.
C10_SaveAll ==
    [][save_all_tabs =>
        /\ save_all_tabs_ret = DirtyPairs(tabs)
        /\ Len(tabs') = Len(tabs)
        /\ \A k \in Idx(tabs') :
            /\ ~At(tabs', k).has_unsaved_changes
            /\ At(tabs', k).original_content = At(tabs', k).content
            /\ At(tabs', k).content = At(tabs, k).content
            /\ At(tabs', k).path = At(tabs, k).path
            /\ At(tabs', k).id = At(tabs, k).id]_vars

\* The first and the third of three tabs are dirty with different contents
\* and the second is clean: save_all_tabs returns two pairs from here.
C10_Witness ==
    /\ Len(tabs) = 3
    /\ At(tabs, 0).has_unsaved_changes
    /\ ~At(tabs, 1).has_unsaved_changes
    /\ At(tabs, 2).has_unsaved_changes
    /\ At(tabs, 0).content # At(tabs, 2).content
    /\ At(tabs, 0).content # At(tabs, 0).original_content

\* What the four closing and switching methods return for an index that is
\* out of bounds, and close_active_tab when there is no tab: an error.
C11_ErrReturned ==
    /\ \A index \in Indexes : index >= tab_count =>
        /\ close_tab_ret(index).kind = "Err"
        /\ force_close_tab_ret(index).kind = "Err"
        /\ switch_to_tab_ret(index).kind = "Err"
    /\ tab_count = 0 => close_active_tab_ret.kind = "Err"

\* C11: close_tab, force_close_tab and switch_to_tab called with
\* index >= tab_count(), and close_active_tab called with no tabs, return an
\* error and leave tabs, active_tab, tab_to_close, show_close_confirmation
\* (and next_id) unchanged.
C11_OutOfBounds ==
    /\ C11_ErrReturned
    /\ [][C11_ErrReturned']_vars
    /\ [][\A index \in Indexes : index >= tab_count =>
            /\ close_tab(index) => UNCHANGED vars
            /\ force_close_tab(index) => UNCHANGED vars
            /\ switch_to_tab(index) => UNCHANGED vars]_vars
    /\ [][(tab_count = 0 /\ close_active_tab) => UNCHANGED vars]_vars

\* No tab is left while a close confirmation is still pending: every index
\* is out of bounds, close_active_tab has no tab to close, and there is
\* pending state for the failing calls to preserve.
C11_Witness ==
    /\ tab_count = 0
    /\ next_id > 1
    /\ show_close_confirmation
    /\ tab_to_close # None
    /\ close_tab_ret(0).kind = "Err"
    /\ force_close_tab_ret(0).kind = "Err"
    /\ switch_to_tab_ret(0).kind = "Err"
    /\ close_active_tab_ret.kind = "Err"

\* C12: for every tab, the dirty flag is true if and only if content differs
\* from original_content.
C12_DirtyIffDiffers ==
    \A k \in Idx(tabs) :
        At(tabs, k).has_unsaved_changes
            <=> (At(tabs, k).content # At(tabs, k).original_content)

\* C15: revert_changes on a tab sets content to original_content, which is
\* itself unchanged, clears the dirty flag and resets cursor_line,
\* cursor_col and scroll_offset to 0; no other field and no other tab
\* changes.
C15_Revert ==
    [][RevertTab =>
        /\ Len(tabs') = Len(tabs)
        /\ LET old == At(tabs, active_tab)
               new == At(tabs', active_tab)
           IN  /\ new.content = old.original_content
               /\ new.original_content = old.original_content
               /\ new.content = new.original_content
               /\ ~new.has_unsaved_changes
               /\ new.cursor_line = 0
               /\ new.cursor_col = 0
               /\ new.scroll_offset = 0
               /\ new.id = old.id
               /\ new.path = old.path
        /\ \A k \in Idx(tabs) : k # active_tab => At(tabs', k) = At(tabs, k)
        /\ UNCHANGED <<active_tab, next_id, show_close_confirmation, tab_to_close>>]_vars

\* The focused tab has been edited away from its snapshot and its cursor
\* and scroll offset have been moved: revert_changes has all of it to undo.
C15_Witness ==
    /\ active_tab < Len(tabs)
    /\ At(tabs, active_tab).content # At(tabs, active_tab).original_content
    /\ At(tabs, active_tab).has_unsaved_changes
    /\ At(tabs, active_tab).cursor_line > 0
    /\ At(tabs, active_tab).cursor_col > 0
    /\ At(tabs, active_tab).scroll_offset > 0

\* The keys that reach handle_file_edit in SpecEdit: Enter, 'a', a two-byte
\* character and Backspace.
EditKeys == {LF, "a", "é", BS}

\* A step of run_app that calls handle_file_edit.
EditStep ==
    /\ run_state = "running"
    /\ file_editing_mode
    /\ ~show_unsaved_alert
    /\ ~show_terminal
    /\ \E ch \in EditKeys : HandleFileEdit(ch)

\* A step of run_app that opens a file.
OpenStep ==
    /\ ~show_file_content
    /\ show_file_content'

\* C13: open_file leaves cursor_position 0, and each insertion and each
\* Backspace made with 0 <= cursor_position <= number of characters of
\* file_content leaves it so and does not panic: from a freshly opened
\* buffer the bound holds after every call of any sequence of edits.
C13_CursorInText ==
    /\ [][OpenStep => cursor_position' = 0]_vars
    /\ [][(EditStep /\ IsIndex(cursor_position, Len(file_content))) =>
            /\ run_state' = "running"
            /\ IsIndex(cursor_position', Len(file_content'))]_vars

\* The cursor is at the end of an edited text that holds a two-byte
\* character and a line break typed by the user.
C13_Witness ==
    /\ file_editing_mode
    /\ file_has_unsaved_changes
    /\ cursor_position = Len(file_content)
    /\ str_len(file_content) > Len(file_content)
    /\ cursor_line > 0
    /\ cursor_position > 1

\* C14: in every state of the edit buffer that edits and cursor moves reach,
\* handle_file_edit('\n') followed by handle_file_edit(Backspace) leaves
\* file_content, cursor_position, cursor_line and cursor_col as they were.
C14_NewlineRoundTrip ==
    (run_state = "running" /\ show_file_content /\ file_editing_mode) =>
        LET broken == handle_file_edit(App, LF)
            joined == handle_file_edit(broken, BS)
        IN  /\ joined.run_state = "running"
            /\ joined.file_content = file_content
            /\ joined.cursor_position = cursor_position
            /\ joined.cursor_line = cursor_line
            /\ joined.cursor_col = cursor_col

\* The segments of s that its line breaks separate, from character i on:
\* one more segment than line breaks, the last one possibly empty.
RECURSIVE SegmentsFrom(_, _, _)
SegmentsFrom(s, i, cur) ==
    IF i > Len(s) THEN <<cur>>
    ELSE IF s[i] = LF THEN <<cur>> \o SegmentsFrom(s, i + 1, <<>>)
    ELSE SegmentsFrom(s, i + 1, Append(cur, s[i]))

Segments(s) == SegmentsFrom(s, 1, <<>>)

\* The number of characters of line number line (0 if there is none).
SegLen(segs, line) == IF line < Len(segs) THEN Len(segs[line + 1]) ELSE 0

\* The character index of (line, col): the lengths of the lines before it,
\* one for each of their line breaks, and col.
RECURSIVE CharIndex(_, _, _)
CharIndex(segs, line, col) ==
    IF line = 0 THEN col
    ELSE SegLen(segs, line - 1) + 1 + CharIndex(segs, line - 1, col)

\* moved has the cursor of the current state.
SameCursor(moved) ==
    /\ moved.cursor_line = cursor_line
    /\ moved.cursor_col = cursor_col
    /\ moved.cursor_position = cursor_position

\* moved has the cursor on line number line, in the column nearest to the
\* current one, and at the character index of that place.
CursorOnLine(moved, line) ==
    LET segs == Segments(file_content)
    IN  /\ moved.cursor_line = line
        /\ moved.cursor_col = Min(cursor_col, SegLen(segs, line))
        /\ moved.cursor_position = CharIndex(segs, line, moved.cursor_col)

\* C16: in every state of the edit buffer, Up is a no-op on the first line
\* and otherwise moves the cursor to the line above, Down is a no-op on the
\* last line of the document and otherwise moves to the line below; the
\* new cursor_col is min(cursor_col, length of the new line) and the new
\* cursor_position is the character index of (cursor_line, cursor_col).
C16_UpDown ==
    (run_state = "running" /\ show_file_content /\ file_editing_mode) =>
        LET up == handle_cursor_movement(App, "Up")
            down == handle_cursor_movement(App, "Down")
            last == Len(Segments(file_content)) - 1
        IN  /\ IF cursor_line = 0
               THEN SameCursor(up)
               ELSE CursorOnLine(up, cursor_line - 1)
            /\ IF cursor_line >= last
               THEN SameCursor(down)
               ELSE CursorOnLine(down, cursor_line + 1)

\* The directions of handle_cursor_movement.
CursorDirection == {"Up", "Down", "Left", "Right"}

\* after is the App that an editing call or a cursor move returned with:
\* its cursor line is visible, and the scroll offset moved from the current
\* one by the least amount that makes it so.
ScrolledToCursor(after) ==
    after.run_state = "running" =>
        /\ after.file_content_scroll <= after.cursor_line
        /\ after.cursor_line < after.file_content_scroll + visible_lines
        /\ after.file_content_scroll =
              IF after.cursor_line < file_content_scroll
                  THEN after.cursor_line
              ELSE IF after.cursor_line >= file_content_scroll + visible_lines
                  THEN after.cursor_line - (visible_lines - 1)
              ELSE file_content_scroll

\* C17: whatever the state of the edit buffer, handle_file_edit and
\* handle_cursor_movement return with
\* file_content_scroll <= cursor_line < file_content_scroll + 30, the scroll
\* offset unchanged if the cursor line was visible, cursor_line if it was
\* above the window and cursor_line - 29 if it was below.
C17_CursorVisible ==
    (run_state = "running" /\ show_file_content) =>
        /\ \A ch \in EditKeys : ScrolledToCursor(handle_file_edit(App, ch))
        /\ \A direction \in CursorDirection :
              ScrolledToCursor(handle_cursor_movement(App, direction))

\* C17 witness: an edit or a move has scrolled the window down to a cursor
\* on the last visible line, and one has now left the cursor above a window
\* that was scrolled away from it.
C17_Witness ==
    /\ run_state = "running"
    /\ file_editing_mode
    /\ file_content_scroll > 0
    /\ cursor_line = file_content_scroll + visible_lines - 1
    /\ handle_cursor_movement(App, "Up").file_content_scroll = file_content_scroll
    /\ \E ch \in EditKeys :
          handle_file_edit(App, ch).file_content_scroll > file_content_scroll

\* The positions of the UI thread.
TypeRunState ==
    run_state \in {"running", "open_terminal_ok", "open_terminal_err", "draw",
                   "exited", "panicked"}


\* The concatenation of the texts number a .. b of chunks.
RECURSIVE ConcatRange(_, _, _)
ConcatRange(chunks, a, b) ==
    IF a > b THEN <<>>
    ELSE IF a = b THEN chunks[a]
    ELSE ConcatRange(chunks, a, (a + b) \div 2)
             \o ConcatRange(chunks, (a + b) \div 2 + 1, b)

\* The most recent min(n, total) lines of the concatenation of chunks.
RecentLines(chunks, n) ==
    LET lns == lines(ConcatRange(chunks, 1, Len(chunks)))
    IN  IF Len(lns) > n THEN LastN(lns, n) ELSE lns

\* C18: each time a reader thread has processed a chunk, the lines of
\* terminal_output are exactly the most recent min(100, total) lines of
\* the concatenation of what was pushed since the output was last cleared,
\* each line intact and in its order.
C18_RecentLinesKept ==
    [][ReaderPush =>
        lines(terminal_output') = RecentLines(appended', max_output_lines)]_vars


\* C19: in every reachable state terminal_output holds at most 100 lines.
C19_OutputCapped ==
    Len(lines(terminal_output)) <= max_output_lines


\* text occurs in line as a run of consecutive characters.
Infix(text, line) ==
    \E i \in 0 .. Len(line) - Len(text) :
        SubSeq(line, i + 1, i + Len(text)) = text

\* Every line of text can be read in the pane, in one of its lines.
Shown(text, pane) ==
    \A k \in 1 .. Len(lines(text)) :
        \E l \in 1 .. Len(pane) : Infix(lines(text)[k], pane[l])

\* send_to_terminal is called on a terminal that has no writer, or none
\* that can be taken.
EchoStep == run_state = "running" /\ run_state' = "draw" /\ echoed' # <<>>

\* C20: the text that send_to_terminal cannot write to a pseudo-terminal is
\* appended to terminal_output, and the frame that ui draws next shows it:
\* it is in the last lines of the output or in the input line below them.
C20_EchoShown ==
    /\ [][EchoStep => terminal_output' = terminal_output \o echoed']_vars
    /\ [][ui => Shown(echoed, snapshot(terminal_output, terminal_input))]_vars


\* Ctrl+T on a hidden terminal, with try_create_pty failing.
OpenFails == run_state = "running" /\ run_state' = "open_terminal_err"

\* The terminal is shown without a pseudo-terminal and run_app polls a key.
EchoMode == run_state = "running" /\ show_terminal /\ ~terminal_pty

\* The last element of a non-empty sequence.
Last(s) == s[Len(s)]

\* More typing fits the bounds of the model.
MayType ==
    /\ Len(terminal_input) < MaxInput
    /\ Len(appended) < MaxVaried
    /\ lock = None

\* C21: when try_create_pty fails, it starts no reader thread and leaves no
\* pty handle and no receiver; open_terminal then shows the terminal and
\* run_app goes on. In that terminal every key leaves the writer of a
\* pseudo-terminal alone, and every character typed ('a', 'e') is appended
\* to terminal_input and stands in the input line of the pane.
C21_EchoMode ==
    /\ [][OpenFails =>
            /\ readers' = readers
            /\ ~terminal_pty' /\ ~terminal_receiver']_vars
    /\ [][(open_terminal /\ run_state = "open_terminal_err") =>
            /\ run_state' = "running"
            /\ show_terminal'
            /\ readers' = readers
            /\ ~terminal_pty' /\ ~terminal_receiver']_vars
    /\ [][EchoMode => written' = <<>>]_vars
    /\ []((EchoMode /\ MayType) =>
            /\ ENABLED (/\ KeyCharA
                        /\ terminal_input' = Append(terminal_input, "a")
                        /\ Infix(terminal_input',
                                 Last(snapshot(terminal_output', terminal_input'))))
            /\ ENABLED (/\ KeyCharE
                        /\ terminal_input' = Append(terminal_input, "e")
                        /\ Infix(terminal_input',
                                 Last(snapshot(terminal_output', terminal_input')))))


\* A step that closes the terminal.
CloseStep == show_terminal /\ ~show_terminal'

\* C22: closing the terminal leaves terminal_pty and terminal_receiver None
\* and terminal_output and terminal_input empty; the reader threads are
\* left running and run_app polls the next key. The terminal can be closed
\* whenever it is shown and the lock of the output is free, whatever the
\* reader threads do.
C22_Close ==
    /\ [][CloseStep =>
            /\ ~terminal_pty' /\ ~terminal_receiver'
            /\ terminal_output' = <<>>
            /\ terminal_input' = <<>>
            /\ readers' = readers
            /\ run_state' = "running"]_vars
    /\ []((run_state = "running" /\ show_terminal /\ lock = None) =>
            ENABLED (KeyCtrlT /\ CloseStep))

\* C22 witness: a terminal with a pseudo-terminal was closed while its
\* reader thread was running.
C22_Witness ==
    /\ run_state = "running"
    /\ ~show_terminal
    /\ ~terminal_pty
    /\ terminal_output = <<>>
    /\ readers > 0


\* C23: a reader thread that holds the lock of the output has the chunk its
\* read returned, and the step that ends its hold is the push and the cut
\* of the output; while it holds the lock nobody else changes the output.
\* With the lock free the frame and the keys of the terminal do not wait,
\* and a reader thread that holds the lock can go on by itself (computed
\* for the outputs of at most one push).
C23_LockDiscipline ==
    /\ [](lock # None =>
            /\ lock[1] # <<>>
            /\ readers > 0
            /\ reading = readers - 1)
    /\ [][lock # None =>
            \/ lock' = lock /\ terminal_output' = terminal_output
            \/ ReaderPush]_vars
    /\ [][lock = None /\ lock' # None => ReaderRead]_vars
    /\ []((run_state = "draw" /\ lock = None) => ENABLED ui)
    /\ []((run_state = "running" /\ show_terminal /\ lock = None
                /\ Len(appended) < MaxVaried) =>
            ENABLED (KeyEnter /\ run_state' = "draw"))
    /\ []((lock # None /\ run_state \in {"running", "draw"}
                /\ Len(appended) <= 1) =>
            ENABLED (ReaderPush /\ lock' = None))

\* C23 witness: the key was handled and the frame is waiting to be drawn
\* while a reader thread holds the lock with the chunk it read.
C23_Witness ==
    /\ run_state = "draw"
    /\ lock # None
    /\ readers = MaxReaders


\* Enter is handled by the terminal.
SubmitStep == KeyEnter /\ show_terminal /\ ~show_unsaved_alert

\* C24: Enter in the terminal passes terminal_input followed by one "\n" to
\* send_to_terminal, once: that text is either written to the pseudo-
\* terminal or pushed onto the output (after the marker when there is no
\* pseudo-terminal), nothing else is written or pushed, and terminal_input
\* is empty afterwards.
C24_SubmitLine ==
    [][SubmitStep =>
        LET line == terminal_input \o <<LF>>
        IN  /\ terminal_input' = <<>>
            /\ run_state' = "draw"
            /\ \/ /\ written' = line
                  /\ echoed' = <<>>
                  /\ terminal_output' = terminal_output
                  /\ appended' = appended
               \/ /\ written' = <<>>
                  /\ echoed' = IF terminal_pty THEN line
                               ELSE <<"(no terminal) ">> \o line
                  /\ terminal_output' = terminal_output \o echoed'
                  /\ appended' = Append(appended, echoed')]_vars

\* C24 witness: Enter sent the line "a" to the pseudo-terminal.
C24_Witness ==
    /\ run_state = "draw"
    /\ written = <<"a", LF>>
    /\ terminal_input = <<>>
    /\ terminal_pty


\* try_create_pty made the pseudo-terminal of a new session.
SessionStarts == run_state = "running" /\ run_state' = "open_terminal_ok"

\* C25: at most one reader thread is running at any time, and a session
\* that was opened with a pseudo-terminal starts exactly one reader thread.
C25_OneReader ==
    /\ [](readers <= 1)
    /\ [][SessionStarts => readers' = readers + 1]_vars
    /\ [][readers' > readers => SessionStarts]_vars


\* C26: while the terminal is closed and no open is under way,
\* terminal_output stays empty, whatever the reader threads of earlier
\* sessions do.
C26_Orphaned ==
    (run_state = "running" /\ ~show_terminal) => terminal_output = <<>>


\* A key of the terminal called send_to_terminal.
SendStep == run_state = "running" /\ run_state' = "draw"

\* C27: send_to_terminal either writes its input to the pseudo-terminal and
\* leaves terminal_output as it was, or pushes onto terminal_output a text
\* that starts with the marker "(no terminal) ".
C27_Marked ==
    [][SendStep =>
        IF written' # <<>>
        THEN /\ terminal_output' = terminal_output
             /\ echoed' = <<>>
        ELSE /\ echoed' # <<>>
             /\ echoed'[1] = "(no terminal) "
             /\ terminal_output' = terminal_output \o echoed']_vars


\* A tab of ts has the id.
HasId(ts, id) == \E k \in 1 .. Len(ts) : ts[k].id = id

\* ts without the tab that has the id.
WithoutId(ts, id) == SelectSeq(ts, LAMBDA t : t.id # id)

\* C28: when close_tab has put a dirty tab T into the pending confirmation
\* and T is still open, confirm_close_tab removes the tab with the id of T
\* and no other tab, whatever was added, closed, focused or saved since.
C28_ConfirmById ==
    [][(pending_id # None /\ HasId(tabs, pending_id[1]) /\ confirm_close_tab) =>
        tabs' = WithoutId(tabs, pending_id[1])]_vars


\* C29: a step that removes a tab other than the active one (close_tab,
\* force_close_tab and confirm_close_tab are the operations that remove
\* tabs) leaves active_tab on the tab with the id it had before.
C29_FocusKept ==
    [][\A i \in Idx(tabs) :
        (/\ active_tab < Len(tabs)
         /\ i # active_tab
         /\ IsWithout(tabs', tabs, i)) =>
            /\ active_tab' < Len(tabs')
            /\ At(tabs', active_tab').id = At(tabs, active_tab).id]_vars

\* C29 witness: the second of three tabs was removed and the third one,
\* which follows the first now, is the active tab.
C29_Witness ==
    /\ Len(tabs) = 2
    /\ At(tabs, 0).id = 1
    /\ At(tabs, 1).id = 3
    /\ active_tab = 1


\* The indices of the line breaks among the first pos characters of s.
BreaksBefore(s, pos) == {i \in 1 .. Min(pos, Len(s)) : s[i] = LF}

\* The index of the last line break among the first pos characters of s,
\* 0 if there is none.
LastBreak(s, pos) ==
    LET breaks == BreaksBefore(s, pos)
    IN  IF breaks = {} THEN 0
        ELSE CHOOSE i \in breaks : \A j \in breaks : j <= i

\* C30: in every state of the edit buffer that edits and cursor moves
\* reach, cursor_line is the number of line breaks before cursor_position,
\* cursor_col is the number of characters between the last of them and
\* cursor_position, and cursor_col is at most the length of that line.
C30_LineColOfPosition ==
    (run_state = "running" /\ show_file_content /\ file_editing_mode) =>
        /\ cursor_line = Cardinality(BreaksBefore(file_content, cursor_position))
        /\ cursor_col = cursor_position - LastBreak(file_content, cursor_position)
        /\ cursor_col <= SegLen(Segments(file_content), cursor_line)


\* C31: in every state that cursor moves and edits reach, also with
\* characters of more than one byte in the text, cursor_position is at most
\* the number of characters of file_content, and no insertion or deletion
\* has aborted the program.
C31_CursorInChars ==
    /\ run_state # "panicked"
    /\ (show_file_content /\ file_editing_mode) =>
            IsIndex(cursor_position, Len(file_content))


\* C32: in every state of the edit buffer, Right moves cursor_position
\* forward by one when it is before the end of the text, to column 0 of
\* the next line when the character it passes is a line break and one
\* column on otherwise, and changes nothing at the end of the text; Left
\* moves cursor_position back by one when it is after the start, to the end
\* of the line above when the character it passes is a line break and one
\* column back otherwise, and changes nothing at offset 0.
C32_LeftRight ==
    (run_state = "running" /\ show_file_content /\ file_editing_mode) =>
        LET right == handle_cursor_movement(App, "Right")
            left == handle_cursor_movement(App, "Left")
            segs == Segments(file_content)
        IN  /\ IF cursor_position < Len(file_content)
               THEN /\ right.cursor_position = cursor_position + 1
                    /\ IF file_content[cursor_position + 1] = LF
                       THEN /\ right.cursor_line = cursor_line + 1
                            /\ right.cursor_col = 0
                       ELSE /\ right.cursor_line = cursor_line
                            /\ right.cursor_col = cursor_col + 1
               ELSE SameCursor(right)
            /\ IF cursor_position > 0
               THEN /\ left.cursor_position = cursor_position - 1
                    /\ IF cursor_position <= Len(file_content)
                            /\ file_content[cursor_position] = LF
                       THEN /\ left.cursor_line = cursor_line - 1
                            /\ left.cursor_col = SegLen(segs, cursor_line - 1)
                       ELSE /\ left.cursor_line = cursor_line
                            /\ left.cursor_col = cursor_col - 1
               ELSE SameCursor(left)


\* The characters typed in C33: the newline, two characters that are not
\* control characters, and three control characters that are neither the
\* newline nor a backspace.
InsertedChars == {LF, "a", "é"}
IgnoredChars == {ETX, CR, "\t"}

\* C33: in every state of the edit buffer, handle_file_edit(c) for a
\* newline or a character that is no control character returns with c
\* inserted into file_content at cursor_position and cursor_position one
\* greater (newline: cursor_line one greater and cursor_col 0; otherwise
\* cursor_col one greater); for another control character that is not a
\* backspace it leaves file_content, cursor_position, cursor_line,
\* cursor_col and file_has_unsaved_changes as they were.
C33_Insert ==
    (run_state = "running" /\ show_file_content /\ file_editing_mode) =>
        /\ \A c \in InsertedChars :
            LET after == handle_file_edit(App, c)
            IN  /\ after.run_state = "running"
                /\ after.file_content = Insert(file_content, cursor_position, c)
                /\ after.cursor_position = cursor_position + 1
                /\ after.cursor_line = IF c = LF THEN cursor_line + 1 ELSE cursor_line
                /\ after.cursor_col = IF c = LF THEN 0 ELSE cursor_col + 1
        /\ \A c \in IgnoredChars :
            LET after == handle_file_edit(App, c)
            IN  /\ after.run_state = "running"
                /\ after.file_content = file_content
                /\ after.file_has_unsaved_changes = file_has_unsaved_changes
                /\ SameCursor(after)


\* C34: in every state with an open file, reached by edits, saves and
\* opens, file_has_unsaved_changes is true exactly if file_content differs
\* from original_file_content.
C34_DirtyIffDiffers ==
    show_file_content =>
        (file_has_unsaved_changes <=> (file_content # original_file_content))


\* C34 witness: an edited text was saved, and the open buffer holds the
\* text of the file and is clean.
C34_Witness ==
    /\ show_file_content
    /\ file_editing_mode
    /\ disk # DiskInit
    /\ file_content = At(disk, selected_index)
    /\ original_file_content = file_content
    /\ ~file_has_unsaved_changes


\* C35: in every state in which Ctrl+S saves the edit buffer, a save whose
\* write fails leaves file_content, original_file_content and
\* file_has_unsaved_changes as they were, with run_app still running and
\* the file still shown.
C35_FailedSave ==
    (run_state = "running" /\ show_file_content /\ file_editing_mode
        /\ file_has_unsaved_changes) =>
        LET failed == save_file(App, FALSE)
        IN  /\ failed.file_content = file_content
            /\ failed.original_file_content = original_file_content
            /\ failed.file_has_unsaved_changes = file_has_unsaved_changes
            /\ failed.disk = disk
            /\ failed.show_file_content
            /\ failed.run_state = "running"


\* C36: a step that ends run_app or closes the open file while
\* file_has_unsaved_changes is true is taken with the unsaved-changes alert
\* shown (it is the answer "save" or "discard" to the alert).
C36_Gated ==
    [][(/\ run_state = "running"
        /\ show_file_content
        /\ file_has_unsaved_changes
        /\ (run_state' = "exited" \/ ~show_file_content')) =>
            /\ show_unsaved_alert
            /\ (KeyCtrlS \/ KeyCharS \/ KeyCharD)]_vars


\* The state of the editor.
EditorState ==
    <<file_content, original_file_content, cursor_position, cursor_line,
      cursor_col, file_content_scroll, file_editing_mode,
      file_has_unsaved_changes>>

\* C37: a key event that arrives while the terminal is shown leaves the state
\* of the editor unchanged, and a key event that arrives while the terminal is
\* not shown leaves terminal_input unchanged and writes nothing to the
\* pseudo-terminal.
C37_OneSubsystem ==
    [][run_state = "running" =>
        /\ show_terminal => UNCHANGED EditorState
        /\ ~show_terminal => UNCHANGED <<terminal_input, written>>]_vars


\* run_app polls a key while the terminal is shown and no alert is.
TerminalFocused == run_state = "running" /\ ~show_unsaved_alert /\ show_terminal

\* run_app polls a key while a file is open in edit mode and neither the
\* terminal nor an alert is shown.
EditorFocused ==
    /\ run_state = "running"
    /\ ~show_unsaved_alert
    /\ ~show_terminal
    /\ show_file_content
    /\ file_editing_mode

\* The cursor is at a character of the buffer and one more character fits the
\* bounds of the model.
MayInsert ==
    /\ IsIndex(cursor_position, Len(file_content))
    /\ Len(file_content) < MaxLen
    /\ original_file_content # LongFile

\* The key step delivered c to the terminal: c is appended to terminal_input
\* and, with a pseudo-terminal, written to it.
Typed(c) ==
    /\ terminal_input' = Append(terminal_input, c)
    /\ terminal_pty => written' = <<c>>

\* The key step delivered c to the editor: c is inserted at the cursor.
InsertedAtCursor(c) == file_content' = Insert(file_content, cursor_position, c)

\* C38: while the terminal is shown and no alert is, each of the character
\* keys a, e, d and q can be typed and is then appended to terminal_input and
\* forwarded; while instead a file is open in edit mode, each of these keys
\* inserts its character into file_content at the cursor.
C38_Delivered ==
    /\ []((TerminalFocused /\ MayType) =>
            /\ ENABLED (KeyCharA /\ Typed("a"))
            /\ ENABLED (KeyCharE /\ Typed("e"))
            /\ ENABLED (KeyCharD /\ Typed("d"))
            /\ ENABLED (KeyQ /\ Typed("q")))
    /\ []((EditorFocused /\ MayInsert) =>
            /\ ENABLED (KeyCharA /\ InsertedAtCursor("a"))
            /\ ENABLED (KeyCharE /\ InsertedAtCursor("e"))
            /\ ENABLED (KeyCharD /\ InsertedAtCursor("d"))
            /\ ENABLED (KeyQ /\ InsertedAtCursor("q")))


\* C39: when every key of a terminal session was written to the pseudo-
\* terminal, Enter included, the line the pseudo-terminal has after Enter,
\* each erase sequence taken as the deletion of a character, is the submitted
\* terminal_input followed by one line terminator.
C39_ShellLine ==
    [][(SubmitStep /\ pty_line # None /\ pty_line' # None) =>
            pty_line' = Some(terminal_input \o <<LF>>)]_vars


====
